---- MODULE Spec2Model ----
(***************************************************************************)
(* Document stores of the chat assistant.                                  *)
(*                                                                         *)
(*   - the embedding-variant store, services/knowledgeBase.ts              *)
(*     (src/unnamed/part_000, class KnowledgeBaseService): add with        *)
(*     validation, getById, remove, update, clearAll, persistence under    *)
(*     the key 'knowledgeBase';                                            *)
(*   - the lexical store, services/ragService.ts (class                    *)
(*     KnowledgeBaseService): seeded constructor, add, remove, lexical     *)
(*     search, persistence under the key 'mistral_knowledge_base';         *)
(*   - the cosine search of services/embeddingService.ts (class            *)
(*     EmbeddingService) over the documents of a store.                    *)
(*                                                                         *)
(* A JavaScript string is a sequence of UTF-16 code units (integers).      *)
(* A Date is its time value, an integer number of milliseconds since the   *)
(* epoch.  An object is a function from property names to values; a        *)
(* property that is not set is not in the domain.                          *)
(***************************************************************************)
EXTENDS Integers, Sequences, FiniteSets, TLC

VARIABLES
    documents,   \* this.documents of the store under study
    storage,     \* the localStorage item under the store's key (NoItem when unset)
    now,         \* the value Date.now() returns
    op,          \* the last completed call: its name, arguments and outcome
    ui,          \* the React state of App and the values its last render closed over
    calls,       \* the async calls started: each one's position and local values
    requests     \* the completion requests sent upstream, in the order sent

\* The variables of the page around the store.
appVars == <<ui, calls, requests>>

vars == <<documents, storage, now, op, ui, calls, requests>>

\* App as first rendered: the initial values of useState, no call started
\* and no request sent.
PageInit ==
    /\ ui = [messages |-> <<>>, inputMessage |-> <<>>, isLoading |-> FALSE,
             connectionStatus |-> "connecting",
             shown |-> [messages |-> <<>>, inputMessage |-> <<>>,
                        isLoading |-> FALSE]]
    /\ calls = <<>>
    /\ requests = <<>>

----------------------------------------------------------------------------
(* Strings *)

\* ""
EmptyString == <<>>

\* String.prototype.trim / the regular expression class \s: WhiteSpace and
\* LineTerminator code units.
WhiteSpace ==
    (9..13) \cup {32, 160, 5760, 8232, 8233, 8239, 8287, 12288, 65279}
    \cup (8192..8202)

isWhiteSpace(c) == c \in WhiteSpace

RECURSIVE trimStart(_)
trimStart(s) ==
    IF s = <<>> THEN <<>>
    ELSE IF isWhiteSpace(Head(s)) THEN trimStart(Tail(s))
    ELSE s

RECURSIVE trimEnd(_)
trimEnd(s) ==
    IF s = <<>> THEN <<>>
    ELSE IF isWhiteSpace(s[Len(s)]) THEN trimEnd(SubSeq(s, 1, Len(s) - 1))
    ELSE s

trim(s) == trimEnd(trimStart(s))

\* String.prototype.toLowerCase on the Basic Latin and Latin-1 ranges.
lowerChar(c) ==
    IF c \in 65..90 THEN c + 32
    ELSE IF c \in 192..222 /\ c # 215 THEN c + 32
    ELSE c

toLowerCase(s) == [i \in 1..Len(s) |-> lowerChar(s[i])]

\* The regular expression class \w: [A-Za-z0-9_].
isWordChar(c) == c \in 48..57 \/ c \in 65..90 \/ c = 95 \/ c \in 97..122

\* s.replace(/[^\w\s]/g, ' ')
replaceNonWord(s) ==
    [i \in 1..Len(s) |-> IF isWordChar(s[i]) \/ isWhiteSpace(s[i]) THEN s[i] ELSE 32]

\* The first position from i on that holds a separator (inSep = TRUE) or a
\* code unit that is none (inSep = FALSE); Len(s) + 1 when there is none.
scan(s, i, seps, inSep) ==
    CHOOSE j \in i..(Len(s) + 1) :
        /\ j = Len(s) + 1 \/ (s[j] \in seps) = inSep
        /\ \A k \in i..(j - 1) : (s[k] \in seps) # inSep

\* The non-empty pieces of s from position i on, between runs of separators.
RECURSIVE piecesFrom(_, _, _)
piecesFrom(s, i, seps) ==
    LET start == scan(s, i, seps, FALSE)
        stop  == scan(s, start, seps, TRUE)
    IN  IF start > Len(s) THEN <<>>
        ELSE <<SubSeq(s, start, stop - 1)>> \o piecesFrom(s, stop, seps)

\* s.split(/[seps]+/) for a set seps of code units: the pieces between maximal
\* runs of separators, in order; a run at the start or at the end of s
\* leaves an empty piece there, and the empty string splits into one empty
\* piece.
split(s, seps) ==
    (IF Len(s) = 0 \/ s[1] \in seps THEN << <<>> >> ELSE <<>>)
    \o piecesFrom(s, 1, seps)
    \o (IF Len(s) > 0 /\ s[Len(s)] \in seps THEN << <<>> >> ELSE <<>>)

\* SimpleEmbeddingService.tokenize
tokenize(text) ==
    SelectSeq(split(replaceNonWord(text), WhiteSpace), LAMBDA word : Len(word) > 2)

\* Array.prototype.includes on an array of strings
includes(arr, x) == \E i \in 1..Len(arr) : arr[i] = x

----------------------------------------------------------------------------
(* Dates *)

\* Day number (days since the epoch) to the civil date <<year, month, day>>
\* of the proleptic Gregorian calendar, as YearFromTime, MonthFromTime and
\* DateFromTime compute it.
civilFromDays(days) ==
    LET z   == days + 719468
        era == z \div 146097
        doe == z - era * 146097
        yoe == (doe - doe \div 1460 + doe \div 36524 - doe \div 146096) \div 365
        doy == doe - (365 * yoe + yoe \div 4 - yoe \div 100)
        mp  == (5 * doy + 2) \div 153
        d   == doy - (153 * mp + 2) \div 5 + 1
        m   == IF mp < 10 THEN mp + 3 ELSE mp - 9
        y   == yoe + era * 400 + (IF m <= 2 THEN 1 ELSE 0)
    IN  <<y, m, d>>

\* MakeDay: the day number of a civil date.
daysFromCivil(y0, m, d) ==
    LET y   == IF m <= 2 THEN y0 - 1 ELSE y0
        era == y \div 400
        yoe == y - era * 400
        mp  == IF m > 2 THEN m - 3 ELSE m + 9
        doy == (153 * mp + 2) \div 5 + d - 1
        doe == yoe * 365 + yoe \div 4 - yoe \div 100 + doy
    IN  era * 146097 + doe - 719468

\* The decimal digits of n, zero-padded to width w, as code units.
RECURSIVE pad(_, _)
pad(n, w) == IF w = 0 THEN <<>> ELSE Append(pad(n \div 10, w - 1), 48 + (n % 10))

\* A date-time text that stops at the second.
toISOStringSeconds(t) ==
    LET day == t \div 86400000
        msd == t % 86400000
        ymd == civilFromDays(day)
    IN  pad(ymd[1], 4) \o <<45>> \o pad(ymd[2], 2) \o <<45>> \o pad(ymd[3], 2)
        \o <<84>> \o pad(msd \div 3600000, 2)
        \o <<58>> \o pad((msd \div 60000) % 60, 2)
        \o <<58>> \o pad((msd \div 1000) % 60, 2)
        \o <<46>> \o pad(0, 3) \o <<90>>

\* Date.prototype.toISOString for a time value with a year in 0..9999:
\* YYYY-MM-DDTHH:mm:ss.sssZ
toISOString(t) ==
    LET day == t \div 86400000
        msd == t % 86400000
        ymd == civilFromDays(day)
    IN  pad(ymd[1], 4) \o <<45>> \o pad(ymd[2], 2) \o <<45>> \o pad(ymd[3], 2)
        \o <<84>> \o pad(msd \div 3600000, 2)
        \o <<58>> \o pad((msd \div 60000) % 60, 2)
        \o <<58>> \o pad((msd \div 1000) % 60, 2)
        \o <<46>> \o pad(msd % 1000, 3) \o <<90>>

\* The number written by the digits s[from..to]; -1 when one is no digit.
RECURSIVE digits(_, _, _)
digits(s, from, to) ==
    IF to < from THEN 0
    ELSE LET hi == digits(s, from, to - 1)
         IN  IF hi < 0 \/ s[to] \notin 48..57 THEN -1 ELSE hi * 10 + (s[to] - 48)

\* The time value of an invalid Date (no time the clock of the model reads).
NaN == -2147483647

\* new Date(string) on the date-time form toISOString writes; any other text
\* read here gives an invalid Date.
parseDate(s) ==
    IF Len(s) # 24 \/ s[5] # 45 \/ s[8] # 45 \/ s[11] # 84 \/ s[14] # 58
       \/ s[17] # 58 \/ s[20] # 46 \/ s[24] # 90
    THEN NaN
    ELSE LET y  == digits(s, 1, 4)
             mo == digits(s, 6, 7)
             d  == digits(s, 9, 10)
             h  == digits(s, 12, 13)
             mi == digits(s, 15, 16)
             se == digits(s, 18, 19)
             ms == digits(s, 21, 23)
         IN  IF y < 0 \/ mo \notin 1..12 \/ d \notin 1..31 \/ h \notin 0..24
                \/ mi \notin 0..59 \/ se \notin 0..59 \/ ms < 0
             THEN NaN
             ELSE daysFromCivil(y, mo, d) * 86400000
                  + h * 3600000 + mi * 60000 + se * 1000 + ms

----------------------------------------------------------------------------
(* Objects and arrays *)

\* {} : the object with no property
NoProps == <<>>

\* { ...a, ...b }
Spread(a, b) ==
    [k \in DOMAIN a \cup DOMAIN b |-> IF k \in DOMAIN b THEN b[k] ELSE a[k]]

\* undefined, as the result of a lookup that finds nothing
undefined == [undefined |-> TRUE]

\* k in o
Has(o, k) == k \in DOMAIN o

\* Array.prototype.findIndex with the predicate doc => doc.id === id, on
\* 1-based positions: 0 stands for the -1 of JavaScript.
RECURSIVE findIndexFrom(_, _, _)
findIndexFrom(docs, id, i) ==
    IF i > Len(docs) THEN 0
    ELSE IF docs[i].id = id THEN i
    ELSE findIndexFrom(docs, id, i + 1)

findIndex(docs, id) == findIndexFrom(docs, id, 1)

\* docs.splice(index, 1) for an index inside the array
splice1(docs, index) ==
    SubSeq(docs, 1, index - 1) \o SubSeq(docs, index + 1, Len(docs))

----------------------------------------------------------------------------
(* Identifiers *)

\* Number.prototype.toString(36) of a non-negative integer
RECURSIVE toString36(_)
toString36(n) ==
    LET d == n % 36
        c == IF d < 10 THEN 48 + d ELSE 87 + d
    IN  IF n < 36 THEN <<c>> ELSE Append(toString36(n \div 36), c)

\* KnowledgeBaseService.generateId: Date.now().toString(36) followed by the
\* base-36 fraction digits of Math.random() (what substring(2) leaves of
\* "0.xxxx").  rnd is that digit string, drawn by the caller.
generateId(t, rnd) == toString36(t) \o rnd

----------------------------------------------------------------------------
(* Persistence *)

\* localStorage.getItem of a key that was never set
NoItem == [kind |-> "null"]

\* JSON.stringify of an array of plain objects whose leaves are strings,
\* numbers and arrays: the text is kept as the value it denotes.
JSONstringify(v) == [kind |-> "json", value |-> v]

\* The map of saveToLocalStorage / saveToStorage: each document with its
\* metadata.createdAt written by toISOString.
dataToSave(docs) ==
    [i \in 1..Len(docs) |->
        Spread(docs[i],
               [metadata |-> Spread(docs[i].metadata,
                    [createdAt |-> toISOString(docs[i].metadata.createdAt)])])]

\* toISOString throws a RangeError on an invalid Date.
canSerialize(docs) == \A i \in 1..Len(docs) : docs[i].metadata.createdAt # NaN

\* A save that never reaches setItem.
saveNothing(docs, item, setItemThrows) == item

\* saveToLocalStorage / saveToStorage: the item the key holds afterwards.
\* setItemThrows: localStorage.setItem raises (quota exceeded, storage
\* disabled); the catch clause logs and goes on.
saveToLocalStorage(docs, item, setItemThrows) ==
    IF canSerialize(docs) /\ ~setItemThrows
    THEN JSONstringify(dataToSave(docs))
    ELSE item

\* A save without its try/catch: the exception of the write leaves it.
saveUncaught(docs, setItemThrows) == ~canSerialize(docs) \/ setItemThrows

\* The exception that leaves saveToLocalStorage / saveToStorage: none, the
\* catch clause takes every exception of the try block.
saveThrows(docs, setItemThrows) == FALSE

\* The try block of the save ran to its end.
saveCompletes(docs, setItemThrows) == canSerialize(docs) /\ ~setItemThrows

\* An item that is no JSON text: JSON.parse throws a SyntaxError.
MalformedItem == [kind |-> "text"]

\* An item that is the JSON text of a value other than an array, such as
\* {"version":1}, 5 or null: parsed.map is not a function.
NonArrayItem == [kind |-> "other"]

\* new Date(doc.metadata.createdAt): new Date(undefined) is an Invalid Date.
reviveDate(metadata) ==
    IF Has(metadata, "createdAt") THEN parseDate(metadata.createdAt) ELSE NaN

\* The map of loadFromLocalStorage / loadFromStorage over the parsed array.
parsedToDocuments(parsed) ==
    [i \in 1..Len(parsed) |->
        Spread(parsed[i],
               [metadata |-> Spread(parsed[i].metadata,
                    [createdAt |-> reviveDate(parsed[i].metadata)])])]

\* The try block of the load throws: JSON.parse on malformed text,
\* parsed.map on a value that is no array, doc.metadata.createdAt on an
\* element without metadata (a TypeError on undefined).
loadThrows(item) ==
    \/ item.kind \in {"text", "other"}
    \/ /\ item.kind = "json"
       /\ \E i \in 1..Len(item.value) : ~Has(item.value[i], "metadata")

\* A load whose map leaves an element without metadata as it is and has no
\* catch clause behind it.
loadUncaught(item) ==
    IF item.kind = "json"
    THEN [i \in 1..Len(item.value) |->
            IF Has(item.value[i], "metadata")
            THEN Spread(item.value[i],
                    [metadata |-> Spread(item.value[i].metadata,
                        [createdAt |-> reviveDate(item.value[i].metadata)])])
            ELSE item.value[i]]
    ELSE <<>>

\* loadFromLocalStorage / loadFromStorage on a freshly constructed store
\* (documents = []): the documents afterwards.  With no item the array is
\* left as it is; the catch clause sets it to [].
loadFromLocalStorage(item) ==
    IF item.kind = "null" \/ loadThrows(item) THEN <<>>
    ELSE parsedToDocuments(item.value)

----------------------------------------------------------------------------
(* Inputs of the model *)

\* Most documents a store holds in the model.
MaxDocs == 2

\* Clock readings: 1970-01-01T00:00:00.037Z and 1970-01-25T20:31:23.647Z.
Times == {37, 2147483647}

\* Fraction digits Math.random().toString(36).substring(2) can give: "k7", "x".
Randoms == {<<107, 55>>, <<120>>}

IdSpace == {generateId(t, r) : t \in Times, r \in Randoms}

\* Titles passed to add: "  " and " Doc".
TitleArgs == {<<32, 32>>, <<32, 68, 111, 99>>}

\* Contents passed to add: "" and " RAG ist. ".
ContentArgs == {<<>>, <<32, 82, 65, 71, 32, 105, 115, 116, 46, 32>>}

\* Metadata passed to add of the embedding-variant store:
\* { source: 'manual' } and {}.
MetadataArgs == { [source |-> "manual"], NoProps }

\* Partial updates passed to update: { title: '' }, { content: 'neu' },
\* { title: 'T', content: 'neu' } and {}.
UpdateArgs ==
    { [title |-> <<>>], [content |-> <<110, 101, 117>>],
      [title |-> <<84>>, content |-> <<110, 101, 117>>], NoProps }

\* The inputs of the runs in which storage writes may fail.
QuotaTitleArgs == {<<32, 68, 111, 99>>}
QuotaContentArgs == {<<82, 65, 71>>}
QuotaMetadataArgs == { [source |-> "upload", fileType |-> <<116, 120, 116>>] }
QuotaUpdateArgs == { [title |-> <<84>>] }

----------------------------------------------------------------------------
(* The embedding-variant store, services/knowledgeBase.ts *)

\* KnowledgeBaseService.validateDocument
validateDocument(document) ==
    /\ Has(document, "title") /\ trim(document.title) # <<>>
    /\ Has(document, "content") /\ trim(document.content) # <<>>
    /\ Has(document, "metadata") /\ Has(document.metadata, "source")
    /\ document.metadata.source # ""

\* The document addDocument builds.
newDocument(id, title, content, metadata, t) ==
    [id |-> id, title |-> title, content |-> content, embedding |-> <<>>,
     metadata |-> Spread([createdAt |-> t], metadata)]

\* KnowledgeBaseService.getDocumentById: the first document with the id, or
\* undefined.
getDocumentById(docs, id) ==
    IF findIndex(docs, id) = 0 THEN undefined ELSE docs[findIndex(docs, id)]

\* A remove without the index !== -1 test: splice(-1, 1) drops the last
\* document.
removeUnguarded(docs, id) ==
    IF findIndex(docs, id) # 0 THEN splice1(docs, findIndex(docs, id))
    ELSE SubSeq(docs, 1, Len(docs) - 1)

\* A removal that takes out every document with the id.
removeEvery(docs, id) == SelectSeq(docs, LAMBDA doc : doc.id # id)

\* The array removeDocument leaves: the first document with the id spliced
\* out when there is one.
removeFrom(docs, id) ==
    IF findIndex(docs, id) # 0 THEN splice1(docs, findIndex(docs, id)) ELSE docs

\* An update that spreads in the wrong order, { ...updates, ...document }.
updateReversed(docs, id, updates) ==
    IF findIndex(docs, id) # 0
    THEN [docs EXCEPT ![findIndex(docs, id)] = Spread(updates, @)]
    ELSE docs

\* The array updateDocument leaves: { ...documents[index], ...updates } at the
\* index of the first document with the id.
updateIn(docs, id, updates) ==
    IF findIndex(docs, id) # 0
    THEN [docs EXCEPT ![findIndex(docs, id)] = Spread(@, updates)]
    ELSE docs

\* constructor: documents = [], then loadFromLocalStorage().
Construct ==
    /\ documents' = loadFromLocalStorage(storage)
    /\ op' = [name |-> "new", caught |-> loadThrows(storage)]
    /\ UNCHANGED <<storage, now, appVars>>

\* addDocument(title, content, metadata)
AddDocument(titles, contents, metas, throws) ==
    \E title \in titles, content \in contents, metadata \in metas,
       rnd \in Randoms, setItemThrows \in throws :
        LET forValidation == [title |-> title, content |-> content,
                              metadata |-> Spread(metadata, [createdAt |-> now])]
            id == generateId(now, rnd)
        IN  IF ~validateDocument(forValidation)
            THEN /\ op' = [name |-> "add", title |-> title, content |-> content,
                           metadata |-> metadata, threw |-> TRUE]
                 /\ UNCHANGED <<documents, storage, now, appVars>>
            ELSE /\ Len(documents) < MaxDocs
                 /\ documents' = Append(documents,
                                    newDocument(id, title, content, metadata, now))
                 /\ storage' = saveToLocalStorage(documents', storage, setItemThrows)
                 /\ op' = IF saveThrows(documents', setItemThrows)
                          THEN [name |-> "add", title |-> title,
                                content |-> content, metadata |-> metadata,
                                threw |-> TRUE, saved |-> FALSE]
                          ELSE [name |-> "add", title |-> title,
                                content |-> content, metadata |-> metadata,
                                threw |-> FALSE, ret |-> id,
                                saved |-> saveCompletes(documents', setItemThrows)]
                 /\ UNCHANGED <<now, appVars>>

\* removeDocument(id)
RemoveDocument(throws) ==
    \E id \in IdSpace, setItemThrows \in throws :
        /\ documents' = removeFrom(documents, id)
        /\ IF findIndex(documents, id) # 0
           THEN /\ storage' = saveToLocalStorage(documents', storage, setItemThrows)
                /\ op' = IF saveThrows(documents', setItemThrows)
                         THEN [name |-> "remove", id |-> id, threw |-> TRUE,
                               saved |-> FALSE]
                         ELSE [name |-> "remove", id |-> id, threw |-> FALSE,
                               ret |-> TRUE,
                               saved |-> saveCompletes(documents', setItemThrows)]
           ELSE /\ storage' = storage
                /\ op' = [name |-> "remove", id |-> id, threw |-> FALSE,
                          ret |-> FALSE]
        /\ UNCHANGED <<now, appVars>>

\* updateDocument(id, updates)
UpdateDocument(updateArgs, throws) ==
    \E id \in IdSpace, updates \in updateArgs, setItemThrows \in throws :
        /\ documents' = updateIn(documents, id, updates)
        /\ IF findIndex(documents, id) # 0
           THEN /\ storage' = saveToLocalStorage(documents', storage, setItemThrows)
                /\ op' = IF saveThrows(documents', setItemThrows)
                         THEN [name |-> "update", id |-> id, updates |-> updates,
                               threw |-> TRUE, saved |-> FALSE]
                         ELSE [name |-> "update", id |-> id, updates |-> updates,
                               threw |-> FALSE, ret |-> TRUE,
                               saved |-> saveCompletes(documents', setItemThrows)]
           ELSE /\ storage' = storage
                /\ op' = [name |-> "update", id |-> id, updates |-> updates,
                          threw |-> FALSE, ret |-> FALSE]
        /\ UNCHANGED <<now, appVars>>

\* clearAllDocuments()
ClearAllDocuments(throws) ==
    \E setItemThrows \in throws :
        /\ documents' = <<>>
        /\ storage' = saveToLocalStorage(documents', storage, setItemThrows)
        /\ op' = [name |-> "clearAll",
                  threw |-> saveThrows(documents', setItemThrows),
                  saved |-> saveCompletes(documents', setItemThrows)]
        /\ UNCHANGED <<now, appVars>>

\* The clock advances between calls.
Tick ==
    /\ \E t \in Times : t > now /\ now' = t
    /\ UNCHANGED <<documents, storage, op, appVars>>

\* The page is opened with nothing stored under the key.
Init ==
    /\ storage = NoItem
    /\ documents = loadFromLocalStorage(storage)
    /\ now = 37
    /\ op = [name |-> "new", caught |-> loadThrows(storage)]
    /\ PageInit

\* The store while every storage write succeeds.
Next ==
    \/ Construct
    \/ AddDocument(TitleArgs, ContentArgs, MetadataArgs, {FALSE})
    \/ RemoveDocument({FALSE})
    \/ UpdateDocument(UpdateArgs, {FALSE})
    \/ ClearAllDocuments({FALSE})
    \/ Tick

Spec == Init /\ [][Next]_vars

\* The store while localStorage.setItem may throw on any write.
NextQuota ==
    \/ Construct
    \/ AddDocument(QuotaTitleArgs, QuotaContentArgs, QuotaMetadataArgs, BOOLEAN)
    \/ RemoveDocument(BOOLEAN)
    \/ UpdateDocument(QuotaUpdateArgs, BOOLEAN)
    \/ ClearAllDocuments(BOOLEAN)

SpecQuota == Init /\ [][NextQuota]_vars

\* A document as the store saves it: added at 37 as
\* addDocument('T', ' RAG ist. ', { source: 'upload', fileType: 'txt' }).
SavedDocument ==
    dataToSave(<<newDocument(generateId(37, <<120>>), <<84>>,
                             <<32, 82, 65, 71, 32, 105, 115, 116, 46, 32>>,
                             [source |-> "upload", fileType |-> "txt"], 37)>>)[1]

\* Items the key can hold when the page is opened: none; malformed text; the
\* JSON text of a non-array; of an array whose second element has no
\* metadata; of an array whose element has a metadata without createdAt; of
\* an array the store saved.
StoredItems ==
    { NoItem, MalformedItem, NonArrayItem,
      JSONstringify(<<SavedDocument,
                      [id |-> <<49>>, title |-> <<84>>, content |-> <<120>>]>>),
      JSONstringify(<<[id |-> <<49>>, title |-> <<84>>, content |-> <<120>>,
                       metadata |-> [source |-> "manual"]]>>),
      JSONstringify(<<SavedDocument>>) }

\* The page is opened over any of the stored items.
InitLoad ==
    /\ storage \in StoredItems
    /\ documents = loadFromLocalStorage(storage)
    /\ now = 37
    /\ op = [name |-> "new", caught |-> loadThrows(storage)]
    /\ PageInit

SpecLoad == InitLoad /\ [][NextQuota]_vars

----------------------------------------------------------------------------
(* The lexical store, services/ragService.ts *)

\* 'Mistral AI Information'
MistralTitle ==
    <<77, 105, 115, 116, 114, 97, 108, 32, 65, 73, 32, 73, 110, 102, 111,
      114, 109, 97, 116, 105, 111, 110>>

\* `Mistral AI ist ein franz?sisches KI-Unternehmen, das sich au ...` (the template literal, line breaks and indentation included)
MistralContent ==
    <<77, 105, 115, 116, 114, 97, 108, 32, 65, 73, 32, 105, 115, 116, 32,
      101, 105, 110, 32, 102, 114, 97, 110, 122, 246, 115, 105, 115, 99,
      104, 101, 115, 32, 75, 73, 45, 85, 110, 116, 101, 114, 110, 101, 104,
      109, 101, 110, 44, 32, 100, 97, 115, 32, 115, 105, 99, 104, 32, 97,
      117, 102, 32, 100, 105, 101, 32, 69, 110, 116, 119, 105, 99, 107, 108,
      117, 110, 103, 32, 118, 111, 110, 32, 76, 97, 114, 103, 101, 32, 76,
      97, 110, 103, 117, 97, 103, 101, 32, 77, 111, 100, 101, 108, 115, 32,
      115, 112, 101, 122, 105, 97, 108, 105, 115, 105, 101, 114, 116, 32,
      104, 97, 116, 46, 32, 10, 32, 32, 32, 32, 32, 32, 32, 32, 68, 105,
      101, 32, 70, 105, 114, 109, 97, 32, 119, 117, 114, 100, 101, 32, 50,
      48, 50, 51, 32, 103, 101, 103, 114, 252, 110, 100, 101, 116, 32, 117,
      110, 100, 32, 98, 105, 101, 116, 101, 116, 32, 118, 101, 114, 115, 99,
      104, 105, 101, 100, 101, 110, 101, 32, 77, 111, 100, 101, 108, 108,
      101, 32, 119, 105, 101, 32, 77, 105, 115, 116, 114, 97, 108, 32, 55,
      66, 44, 32, 77, 105, 115, 116, 114, 97, 108, 32, 56, 120, 55, 66, 32,
      117, 110, 100, 32, 77, 105, 115, 116, 114, 97, 108, 32, 76, 97, 114,
      103, 101, 32, 97, 110, 46, 32, 10, 32, 32, 32, 32, 32, 32, 32, 32, 77,
      105, 115, 116, 114, 97, 108, 32, 65, 73, 32, 108, 101, 103, 116, 32,
      103, 114, 111, 223, 101, 110, 32, 87, 101, 114, 116, 32, 97, 117, 102,
      32, 111, 102, 102, 101, 110, 101, 32, 117, 110, 100, 32, 118, 101,
      114, 97, 110, 116, 119, 111, 114, 116, 117, 110, 103, 115, 118, 111,
      108, 108, 101, 32, 75, 73, 45, 69, 110, 116, 119, 105, 99, 107, 108,
      117, 110, 103, 46, 32, 10, 32, 32, 32, 32, 32, 32, 32, 32, 68, 105,
      101, 32, 77, 111, 100, 101, 108, 108, 101, 32, 115, 105, 110, 100, 32,
      102, 252, 114, 32, 118, 101, 114, 115, 99, 104, 105, 101, 100, 101,
      110, 101, 32, 65, 110, 119, 101, 110, 100, 117, 110, 103, 101, 110,
      32, 111, 112, 116, 105, 109, 105, 101, 114, 116, 44, 32, 118, 111,
      110, 32, 84, 101, 120, 116, 103, 101, 110, 101, 114, 105, 101, 114,
      117, 110, 103, 32, 98, 105, 115, 32, 104, 105, 110, 32, 122, 117, 32,
      67, 111, 100, 101, 45, 65, 115, 115, 105, 115, 116, 101, 110, 122, 46>>

\* 'RAG (Retrieval-Augmented Generation)'
RagTitle ==
    <<82, 65, 71, 32, 40, 82, 101, 116, 114, 105, 101, 118, 97, 108, 45, 65,
      117, 103, 109, 101, 110, 116, 101, 100, 32, 71, 101, 110, 101, 114,
      97, 116, 105, 111, 110, 41>>

\* `RAG ist eine Technik, die Large Language Models mit externen ...` (the template literal, line breaks and indentation included)
RagContent ==
    <<82, 65, 71, 32, 105, 115, 116, 32, 101, 105, 110, 101, 32, 84, 101,
      99, 104, 110, 105, 107, 44, 32, 100, 105, 101, 32, 76, 97, 114, 103,
      101, 32, 76, 97, 110, 103, 117, 97, 103, 101, 32, 77, 111, 100, 101,
      108, 115, 32, 109, 105, 116, 32, 101, 120, 116, 101, 114, 110, 101,
      110, 32, 87, 105, 115, 115, 101, 110, 115, 100, 97, 116, 101, 110, 98,
      97, 110, 107, 101, 110, 32, 107, 111, 109, 98, 105, 110, 105, 101,
      114, 116, 46, 32, 10, 32, 32, 32, 32, 32, 32, 32, 32, 68, 97, 98, 101,
      105, 32, 119, 105, 114, 100, 32, 122, 117, 101, 114, 115, 116, 32,
      114, 101, 108, 101, 118, 97, 110, 116, 101, 32, 73, 110, 102, 111,
      114, 109, 97, 116, 105, 111, 110, 32, 97, 117, 115, 32, 101, 105, 110,
      101, 114, 32, 68, 97, 116, 101, 110, 98, 97, 110, 107, 32, 97, 98,
      103, 101, 114, 117, 102, 101, 110, 32, 117, 110, 100, 32, 100, 97,
      110, 110, 32, 118, 111, 109, 32, 83, 112, 114, 97, 99, 104, 109, 111,
      100, 101, 108, 108, 32, 122, 117, 114, 32, 65, 110, 116, 119, 111,
      114, 116, 103, 101, 110, 101, 114, 105, 101, 114, 117, 110, 103, 32,
      118, 101, 114, 119, 101, 110, 100, 101, 116, 46, 32, 10, 32, 32, 32,
      32, 32, 32, 32, 32, 68, 105, 101, 115, 32, 101, 114, 109, 246, 103,
      108, 105, 99, 104, 116, 32, 101, 115, 44, 32, 97, 107, 116, 117, 101,
      108, 108, 101, 32, 117, 110, 100, 32, 115, 112, 101, 122, 105, 102,
      105, 115, 99, 104, 101, 32, 73, 110, 102, 111, 114, 109, 97, 116, 105,
      111, 110, 101, 110, 32, 105, 110, 32, 100, 105, 101, 32, 65, 110, 116,
      119, 111, 114, 116, 101, 110, 32, 101, 105, 110, 122, 117, 98, 101,
      122, 105, 101, 104, 101, 110, 44, 32, 111, 104, 110, 101, 32, 100, 97,
      115, 32, 77, 111, 100, 101, 108, 108, 32, 110, 101, 117, 32, 122, 117,
      32, 116, 114, 97, 105, 110, 105, 101, 114, 101, 110, 46, 32, 10, 32,
      32, 32, 32, 32, 32, 32, 32, 82, 65, 71, 32, 118, 101, 114, 98, 101,
      115, 115, 101, 114, 116, 32, 100, 105, 101, 32, 70, 97, 107, 116, 101,
      110, 116, 114, 101, 117, 101, 32, 117, 110, 100, 32, 114, 101, 100,
      117, 122, 105, 101, 114, 116, 32, 72, 97, 108, 108, 117, 122, 105,
      110, 97, 116, 105, 111, 110, 101, 110, 32, 98, 101, 105, 32, 65, 73,
      45, 83, 121, 115, 116, 101, 109, 101, 110, 46>>

\* 'Chatbot Development'
ChatbotTitle ==
    <<67, 104, 97, 116, 98, 111, 116, 32, 68, 101, 118, 101, 108, 111, 112,
      109, 101, 110, 116>>

\* `Ein Chatbot ist ein Computerprogramm, das menschliche Konver ...` (the template literal, line breaks and indentation included)
ChatbotContent ==
    <<69, 105, 110, 32, 67, 104, 97, 116, 98, 111, 116, 32, 105, 115, 116,
      32, 101, 105, 110, 32, 67, 111, 109, 112, 117, 116, 101, 114, 112,
      114, 111, 103, 114, 97, 109, 109, 44, 32, 100, 97, 115, 32, 109, 101,
      110, 115, 99, 104, 108, 105, 99, 104, 101, 32, 75, 111, 110, 118, 101,
      114, 115, 97, 116, 105, 111, 110, 32, 115, 105, 109, 117, 108, 105,
      101, 114, 116, 46, 32, 10, 32, 32, 32, 32, 32, 32, 32, 32, 77, 111,
      100, 101, 114, 110, 101, 32, 67, 104, 97, 116, 98, 111, 116, 115, 32,
      110, 117, 116, 122, 101, 110, 32, 78, 97, 116, 117, 114, 97, 108, 32,
      76, 97, 110, 103, 117, 97, 103, 101, 32, 80, 114, 111, 99, 101, 115,
      115, 105, 110, 103, 32, 117, 110, 100, 32, 77, 97, 99, 104, 105, 110,
      101, 32, 76, 101, 97, 114, 110, 105, 110, 103, 46, 32, 10, 32, 32, 32,
      32, 32, 32, 32, 32, 83, 105, 101, 32, 107, 246, 110, 110, 101, 110,
      32, 105, 110, 32, 67, 117, 115, 116, 111, 109, 101, 114, 32, 83, 101,
      114, 118, 105, 99, 101, 44, 32, 69, 45, 67, 111, 109, 109, 101, 114,
      99, 101, 44, 32, 66, 105, 108, 100, 117, 110, 103, 32, 117, 110, 100,
      32, 118, 105, 101, 108, 101, 110, 32, 97, 110, 100, 101, 114, 101,
      110, 32, 66, 101, 114, 101, 105, 99, 104, 101, 110, 32, 101, 105, 110,
      103, 101, 115, 101, 116, 122, 116, 32, 119, 101, 114, 100, 101, 110,
      46, 32, 10, 32, 32, 32, 32, 32, 32, 32, 32, 87, 105, 99, 104, 116,
      105, 103, 101, 32, 75, 111, 109, 112, 111, 110, 101, 110, 116, 101,
      110, 32, 115, 105, 110, 100, 58, 32, 73, 110, 116, 101, 110, 116, 32,
      82, 101, 99, 111, 103, 110, 105, 116, 105, 111, 110, 44, 32, 69, 110,
      116, 105, 116, 121, 32, 69, 120, 116, 114, 97, 99, 116, 105, 111, 110,
      44, 32, 68, 105, 97, 108, 111, 103, 32, 77, 97, 110, 97, 103, 101,
      109, 101, 110, 116, 32, 117, 110, 100, 32, 82, 101, 115, 112, 111,
      110, 115, 101, 32, 71, 101, 110, 101, 114, 97, 116, 105, 111, 110, 46>>

\* The three documents initializeDefaultKnowledge adds, in order.
DefaultKnowledge ==
    << [title |-> MistralTitle, content |-> MistralContent],
       [title |-> RagTitle, content |-> RagContent],
       [title |-> ChatbotTitle, content |-> ChatbotContent] >>

\* Most documents the lexical store holds in the model.
MaxRagDocs == 2

\* Largest topK passed to search.
MaxTopK == 3

\* add calls of the lexical store, as <<title, content, metadata>>:
\*   addDocument('', ' \n', {})
\*   addDocument('Neu', ' RAG ist. ', { source: 'website', url: 'u' })
\*   addDocument('Alt', 'das ist es', { createdAt: new Date(86399999) })
RagAddArgs ==
    { << <<>>, <<32, 10>>, NoProps >>,
      << <<78, 101, 117>>, <<32, 82, 65, 71, 32, 105, 115, 116, 46, 32>>,
         [source |-> "website", url |-> <<117>>] >>,
      << <<65, 108, 116>>, <<100, 97, 115, 32, 105, 115, 116, 32, 101, 115>>,
         [createdAt |-> 86399999] >> }

\* Queries passed to search:
\*   'Was ist RAG?'
\*   'ist aaa bbb ccc ddd eee fff ggg hhh iii'  (ten tokens)
\*   '?!'                                       (no token)
Queries ==
    { <<87, 97, 115, 32, 105, 115, 116, 32, 82, 65, 71, 63>>,
      <<105, 115, 116, 32, 97, 97, 97, 32, 98, 98, 98, 32, 99, 99, 99, 32,
        100, 100, 100, 32, 101, 101, 101, 32, 102, 102, 102, 32, 103, 103,
        103, 32, 104, 104, 104, 32, 105, 105, 105>>,
      <<63, 33>> }

\* The counter a forEach increments once per element that passes its test:
\* hits[i] tells whether element i passes.
countHits(hits) == Cardinality({i \in 1..Len(hits) : hits[i]})

\* calculateSimilarity counting every distinct matching query word once.
similarityOfDistinct(query, document) ==
    LET queryWords == tokenize(toLowerCase(query))
        docWords   == tokenize(toLowerCase(document.content))
        matching   == {queryWords[i] : i \in {k \in 1..Len(queryWords) :
                                                includes(docWords, queryWords[k])}}
    IN  IF Len(queryWords) > 0
        THEN [num |-> Cardinality(matching), den |-> Len(queryWords)]
        ELSE [num |-> 0, den |-> 1]

\* A similarity is the exact quotient num / den (den > 0) of the two
\* integers the code divides.
\* SimpleEmbeddingService.calculateSimilarity
calculateSimilarity(query, document) ==
    LET queryWords == tokenize(toLowerCase(query))
        docWords   == tokenize(toLowerCase(document.content))
        matches    == countHits([i \in 1..Len(queryWords) |->
                                    includes(docWords, queryWords[i])])
    IN  IF Len(queryWords) > 0
        THEN [num |-> matches, den |-> Len(queryWords)]
        ELSE [num |-> 0, den |-> 1]

\* similarity > 0.1
aboveThreshold(sim) == sim.num * 10 > sim.den

\* a < b for two similarities
simLess(a, b) == a.num * b.den < b.num * a.den

\* String.prototype.includes: sub occurs in s.
isSubstring(sub, s) ==
    \E k \in 0..(Len(s) - Len(sub)) : SubSeq(s, k + 1, k + Len(sub)) = sub

\* content.split(/[.!?]+/): the pieces between maximal runs of . ! ?
SentenceEnds == {46, 33, 63}


\* The forEach of searchRelevantChunk replacing the best sentence so far by
\* one with an equal score as well.
RECURSIVE bestSentenceLast(_, _, _, _, _)
bestSentenceLast(sentences, queryWords, i, bestSentence, bestScore) ==
    IF i > Len(sentences) THEN bestSentence
    ELSE LET sentenceWords == tokenize(toLowerCase(sentences[i]))
             score == countHits([w \in 1..Len(queryWords) |->
                        \E j \in 1..Len(sentenceWords) :
                            \/ isSubstring(queryWords[w], sentenceWords[j])
                            \/ isSubstring(sentenceWords[j], queryWords[w])])
         IN  IF score > 0 /\ score >= bestScore
             THEN bestSentenceLast(sentences, queryWords, i + 1,
                                   trim(sentences[i]), score)
             ELSE bestSentenceLast(sentences, queryWords, i + 1,
                                   bestSentence, bestScore)

\* The forEach of searchRelevantChunk from sentence i on: the best sentence
\* so far is replaced only by one with a strictly greater score.
RECURSIVE bestSentenceFrom(_, _, _, _, _)
bestSentenceFrom(sentences, queryWords, i, bestSentence, bestScore) ==
    IF i > Len(sentences) THEN bestSentence
    ELSE LET sentenceWords == tokenize(toLowerCase(sentences[i]))
             score == countHits([w \in 1..Len(queryWords) |->
                        \E j \in 1..Len(sentenceWords) :
                            \/ isSubstring(queryWords[w], sentenceWords[j])
                            \/ isSubstring(sentenceWords[j], queryWords[w])])
         IN  IF score > bestScore
             THEN bestSentenceFrom(sentences, queryWords, i + 1,
                                   trim(sentences[i]), score)
             ELSE bestSentenceFrom(sentences, queryWords, i + 1,
                                   bestSentence, bestScore)

\* SimpleEmbeddingService.searchRelevantChunk
searchRelevantChunk(query, content) ==
    LET sentences  == SelectSeq(split(content, SentenceEnds),
                                LAMBDA sentence : Len(trim(sentence)) > 0)
        queryWords == tokenize(toLowerCase(query))
        best       == bestSentenceFrom(sentences, queryWords, 1, <<>>, 0)
    IN  IF best # <<>> THEN best
        ELSE SubSeq(content, 1, IF Len(content) < 200 THEN Len(content) ELSE 200)
             \o <<46, 46, 46>>

\* The forEach of search from document i on: the results pushed, in document
\* order.
RECURSIVE collectResults(_, _, _)
collectResults(docs, query, i) ==
    IF i > Len(docs) THEN <<>>
    ELSE LET similarity == calculateSimilarity(query, docs[i])
         IN  IF aboveThreshold(similarity)
             THEN <<[document |-> docs[i], similarity |-> similarity,
                     relevantChunk |-> searchRelevantChunk(query, docs[i].content)]>>
                  \o collectResults(docs, query, i + 1)
             ELSE collectResults(docs, query, i + 1)

\* An insertion that puts a result before the results of equal similarity.
RECURSIVE insertBeforeTies(_, _)
insertBeforeTies(sorted, r) ==
    IF sorted = <<>> THEN <<r>>
    ELSE IF ~simLess(r.similarity, Head(sorted).similarity)
         THEN <<r>> \o sorted
         ELSE <<Head(sorted)>> \o insertBeforeTies(Tail(sorted), r)

\* results.sort((a, b) => b.similarity - a.similarity): the stable sort by
\* descending similarity, by insertion after every element that is not
\* smaller.
RECURSIVE insertSorted(_, _)
insertSorted(sorted, r) ==
    IF sorted = <<>> THEN <<r>>
    ELSE IF simLess(Head(sorted).similarity, r.similarity)
         THEN <<r>> \o sorted
         ELSE <<Head(sorted)>> \o insertSorted(Tail(sorted), r)

RECURSIVE sortFrom(_, _, _)
sortFrom(results, i, sorted) ==
    IF i > Len(results) THEN sorted
    ELSE sortFrom(results, i + 1, insertSorted(sorted, results[i]))

\* The results left in document order.
unsorted(results) == results

sortBySimilarity(results) == sortFrom(results, 1, <<>>)

\* A slice that ignores its end.
sliceAll(arr, end) == arr

\* arr.slice(0, end) for end >= 0
slice0(arr, end) == SubSeq(arr, 1, IF end < Len(arr) THEN end ELSE Len(arr))

\* KnowledgeBaseService.search
search(docs, query, topK) ==
    slice0(sortBySimilarity(collectResults(docs, query, 1)), topK)

\* Vectors createEmbedding(query) returns in the model: [1, 0], [0, 1],
\* [0, 0], [-1, 0], and [1], which is shorter than the stored embeddings.
QueryEmbeddings == {<<1, 0>>, <<0, 1>>, <<0, 0>>, <<-1, 0>>, <<1>>}

\* a.reduce((sum, a_i, i) => sum + a_i * b[i], 0) from index i on
RECURSIVE dotFrom(_, _, _)
dotFrom(a, b, i) ==
    IF i > Len(a) THEN 0 ELSE a[i] * b[i] + dotFrom(a, b, i + 1)

\* cosineSimilarity without the test for a zero magnitude: the quotient of
\* a zero vector is 0 / 0.
cosineUnguarded(a, b) ==
    [dot |-> dotFrom(a, b, 1), sq |-> dotFrom(a, a, 1) * dotFrom(b, b, 1)]

\* EmbeddingService.cosineSimilarity of two vectors of one length.  The
\* quotient dotProduct / (sqrt(sqA) * sqrt(sqB)) is kept as its exact parts
\* [dot, sq] with sq = sqA * sqB; the result 0 of a zero magnitude is
\* [dot |-> 0, sq |-> 1].
cosineSimilarity(a, b) ==
    LET dotProduct == dotFrom(a, b, 1)
        sqA        == dotFrom(a, a, 1)
        sqB        == dotFrom(b, b, 1)
    IN  IF sqA = 0 \/ sqB = 0
        THEN [dot |-> 0, sq |-> 1]
        ELSE [dot |-> dotProduct, sq |-> sqA * sqB]

\* x < y for two cosine similarities: dot / sqrt(sq) compared by sign and
\* by square.
cosLess(x, y) ==
    IF x.dot < 0 /\ y.dot >= 0 THEN TRUE
    ELSE IF x.dot >= 0 /\ y.dot < 0 THEN FALSE
    ELSE IF x.dot >= 0 THEN x.dot * x.dot * y.sq < y.dot * y.dot * x.sq
    ELSE x.dot * x.dot * y.sq > y.dot * y.dot * x.sq

\* documents.filter(doc => doc.embedding && doc.embedding.length > 0)
\* A search that leaves out the filter on embeddings.
everyDocument(docs) == docs

documentsWithEmbeddings(docs) ==
    SelectSeq(docs, LAMBDA doc : Has(doc, "embedding") /\ Len(doc.embedding) > 0)

\* similarities.sort((a, b) => b.similarity - a.similarity): the stable sort
\* by descending cosine.
RECURSIVE insertByCosine(_, _)
insertByCosine(sorted, r) ==
    IF sorted = <<>> THEN <<r>>
    ELSE IF cosLess(Head(sorted).similarity, r.similarity)
         THEN <<r>> \o sorted
         ELSE <<Head(sorted)>> \o insertByCosine(Tail(sorted), r)

RECURSIVE sortByCosineFrom(_, _, _)
sortByCosineFrom(results, i, sorted) ==
    IF i > Len(results) THEN sorted
    ELSE sortByCosineFrom(results, i + 1, insertByCosine(sorted, results[i]))

\* cosineSimilarity throws when the two vectors differ in length, and on
\* b.length of an embedding that is undefined.
lengthsDiffer(queryEmbedding, docs) ==
    \E i \in 1..Len(documentsWithEmbeddings(docs)) :
        \/ ~Has(documentsWithEmbeddings(docs)[i], "embedding")
        \/ Len(documentsWithEmbeddings(docs)[i].embedding) # Len(queryEmbedding)

\* EmbeddingService.searchSimilar, given the embedding of the query, when no
\* cosineSimilarity throws.
searchSimilar(queryEmbedding, docs, topK) ==
    LET withEmbeddings == documentsWithEmbeddings(docs)
        similarities ==
            [i \in 1..Len(withEmbeddings) |->
                Spread(withEmbeddings[i],
                       [similarity |-> cosineSimilarity(queryEmbedding,
                                           withEmbeddings[i].embedding)])]
    IN  slice0(sortByCosineFrom(similarities, 1, <<>>), topK)

\* The document addDocument of the lexical store builds.
ragNewDocument(id, title, content, metadata, t) ==
    [id |-> id, title |-> title, content |-> trim(content),
     metadata |-> Spread([source |-> "manual", createdAt |-> t], metadata)]

\* initializeDefaultKnowledge: the three default documents are added, one
\* generateId each, when the store is empty.
\* A constructor that adds the defaults to whatever was loaded.
seedAlways(docs, t, rnds) ==
    docs \o [i \in 1..Len(DefaultKnowledge) |->
               ragNewDocument(generateId(t, rnds[i]), DefaultKnowledge[i].title,
                              DefaultKnowledge[i].content, [source |-> "manual"], t)]

initializeDefaultKnowledge(docs, t, rnds) ==
    IF Len(docs) = 0
    THEN [i \in 1..Len(DefaultKnowledge) |->
            ragNewDocument(generateId(t, rnds[i]), DefaultKnowledge[i].title,
                           DefaultKnowledge[i].content, [source |-> "manual"], t)]
    ELSE docs

\* constructor: loadFromStorage(), then initializeDefaultKnowledge(); each
\* default addDocument saves.
RagConstruct ==
    \E rnds \in [1..Len(DefaultKnowledge) -> Randoms] :
        /\ documents' = initializeDefaultKnowledge(loadFromLocalStorage(storage),
                                                   now, rnds)
        /\ storage' = IF Len(loadFromLocalStorage(storage)) = 0
                      THEN saveToLocalStorage(documents', storage, FALSE)
                      ELSE storage
        /\ op' = [name |-> "new", caught |-> loadThrows(storage)]
        /\ UNCHANGED <<now, appVars>>

\* addDocument(title, content, metadata) of the lexical store
RagAddDocument ==
    \E args \in RagAddArgs, rnd \in Randoms :
        LET id == generateId(now, rnd)
        IN  /\ Len(documents) < MaxRagDocs
            /\ documents' = Append(documents,
                                ragNewDocument(id, args[1], args[2], args[3], now))
            /\ storage' = saveToLocalStorage(documents', storage, FALSE)
            /\ op' = [name |-> "add", title |-> args[1], content |-> args[2],
                      metadata |-> args[3], threw |-> FALSE, ret |-> id,
                      saved |-> saveCompletes(documents', FALSE)]
            /\ UNCHANGED <<now, appVars>>

\* search(query, topK)
RagSearch ==
    \E query \in Queries, topK \in 0..MaxTopK :
        /\ op' = [name |-> "search", query |-> query, topK |-> topK,
                  ret |-> search(documents, query, topK)]
        /\ UNCHANGED <<documents, storage, now, appVars>>

\* searchSimilar(query, getAllDocuments(), topK) of an initialized
\* EmbeddingService over the documents of the store.
SearchSimilar ==
    \E queryEmbedding \in QueryEmbeddings, topK \in 0..MaxTopK :
        /\ op' = IF lengthsDiffer(queryEmbedding, documents)
                 THEN [name |-> "searchSimilar", query |-> queryEmbedding,
                       topK |-> topK, threw |-> TRUE]
                 ELSE [name |-> "searchSimilar", query |-> queryEmbedding,
                       topK |-> topK, threw |-> FALSE,
                       ret |-> searchSimilar(queryEmbedding, documents, topK)]
        /\ UNCHANGED <<documents, storage, now, appVars>>

\* The documents found under the key: 'Neu' with content 'RAG ist.' from
\* the website u, and 'Alt' with content 'das ist es', stored with the
\* embeddings [3, 4] and [1, 0].
PersistedDocuments ==
    << Spread(ragNewDocument(generateId(37, <<120>>), <<78, 101, 117>>,
                             <<32, 82, 65, 71, 32, 105, 115, 116, 46, 32>>,
                             [source |-> "website", url |-> <<117>>], 37),
              [embedding |-> <<3, 4>>]),
       Spread(ragNewDocument(generateId(37, <<107, 55>>), <<65, 108, 116>>,
                             <<100, 97, 115, 32, 105, 115, 116, 32, 101, 115>>,
                             [createdAt |-> 86399999], 37),
              [embedding |-> <<1, 0>>]) >>

\* The store of a page opened over the documents of an earlier session: the
\* constructor loads them and, the store not being empty, adds no default
\* document.
RagInit ==
    /\ now = 37
    /\ storage = saveToLocalStorage(PersistedDocuments, NoItem, FALSE)
    /\ op = [name |-> "new", caught |-> loadThrows(storage)]
    /\ documents = initializeDefaultKnowledge(loadFromLocalStorage(storage), now,
                                              [i \in 1..Len(DefaultKnowledge) |-> <<>>])
    /\ PageInit

\* One session of the lexical store (the clock reads 37 throughout).
RagNext ==
    \/ RagAddDocument
    \/ RemoveDocument({FALSE})
    \/ RagSearch
    \/ SearchSimilar

SpecRag == RagInit /\ [][RagNext]_vars

\* The lexical store constructed over an empty localStorage: the default
\* knowledge is seeded and saved.
SeedInit ==
    \E rnds \in [1..Len(DefaultKnowledge) -> Randoms] :
        /\ now = 37
        /\ documents = initializeDefaultKnowledge(loadFromLocalStorage(NoItem),
                                                  now, rnds)
        /\ storage = saveToLocalStorage(documents, NoItem, FALSE)
        /\ op = [name |-> "new", caught |-> loadThrows(NoItem)]
        /\ PageInit

\* One session over the default knowledge: searches, removals and page
\* loads (the clock reads 37 throughout).
SeedNext ==
    \/ RagConstruct
    \/ RemoveDocument({FALSE})
    \/ RagSearch

SpecSeed == SeedInit /\ [][SeedNext]_vars

\* Another tab, or another version of the page, leaves an item under the
\* key: none, malformed text, text of another shape, an empty array, or
\* documents.
StorageWritten ==
    /\ storage' \in StoredItems \cup {JSONstringify(<<>>)}
    /\ storage' # storage
    /\ UNCHANGED <<documents, now, op, appVars>>

ReloadNext ==
    \/ RagConstruct
    \/ RemoveDocument({FALSE})
    \/ StorageWritten

SpecReload == SeedInit /\ [][ReloadNext]_vars

----------------------------------------------------------------------------
(* The scoring functions called on their own *)

\* Longest text passed to the tokenizer.
MaxTextLen == 5

\* Code units of the texts passed to the tokenizer: a, B, blank, full stop
\* and a-umlaut.
Alphabet == {97, 66, 32, 46, 228}

\* Texts passed to the tokenizer: every string over Alphabet of at most
\* MaxTextLen code units.
TokenizeArgs == UNION {[1..n -> Alphabet] : n \in 0..MaxTextLen}

\* Most words of a query or a content passed to calculateSimilarity.
MaxWords == 2

\* The words: 'rag', 'Ist', 'es', 'RAG?'.
Words == {<<114, 97, 103>>, <<73, 115, 116>>, <<101, 115>>, <<82, 65, 71, 63>>}

\* The words of a sequence with one blank between two of them.
RECURSIVE joinWords(_)
joinWords(words) ==
    IF Len(words) = 0 THEN <<>>
    ELSE IF Len(words) = 1 THEN words[1]
    ELSE words[1] \o <<32>> \o joinWords(Tail(words))

\* Queries and contents passed to calculateSimilarity: at most MaxWords
\* words.
WordTexts == {joinWords(ws) : ws \in UNION {[1..n -> Words] : n \in 0..MaxWords}}

\* Most pieces of a content passed to searchRelevantChunk.
MaxPieces == 2

\* The pieces: 'RAG ist.', ' Ist RAG gut?!', ' ... ', 'Ragout es'.
Pieces ==
    { <<82, 65, 71, 32, 105, 115, 116, 46>>,
      <<32, 73, 115, 116, 32, 82, 65, 71, 32, 103, 117, 116, 63, 33>>,
      <<32, 46, 46, 46, 32>>,
      <<82, 97, 103, 111, 117, 116, 32, 101, 115>> }

\* The pieces of a sequence one after the other.
RECURSIVE concatPieces(_)
concatPieces(pieces) ==
    IF Len(pieces) = 0 THEN <<>> ELSE pieces[1] \o concatPieces(Tail(pieces))

\* Contents passed to searchRelevantChunk: at most MaxPieces pieces, and the
\* first default content, which is longer than 200 code units.
ChunkContents ==
    {concatPieces(ps) : ps \in UNION {[1..n -> Pieces] : n \in 0..MaxPieces}}
    \cup {MistralContent}

\* Queries passed to searchRelevantChunk: 'rag', 'ist gut', 'Ragout rag',
\* '?!'.
ChunkQueries ==
    { <<114, 97, 103>>, <<105, 115, 116, 32, 103, 117, 116>>,
      <<82, 97, 103, 111, 117, 116, 32, 114, 97, 103>>, <<63, 33>> }

\* Longest vector passed to cosineSimilarity.
MaxDim == 2

\* Vectors passed to cosineSimilarity: components -1, 0, 2.
Vectors == UNION {[1..n -> {-1, 0, 2}] : n \in 0..MaxDim}

\* tokenize(text.toLowerCase()), as calculateSimilarity and
\* searchRelevantChunk call it
Tokenize ==
    /\ op.name = "args" /\ op.of = "tokenize"
    /\ op' = [name |-> "tokenize", text |-> op.text,
              ret |-> tokenize(toLowerCase(op.text))]
    /\ UNCHANGED <<documents, storage, now, appVars>>

\* calculateSimilarity(query, document)
CalculateSimilarity ==
    /\ op.name = "args" /\ op.of = "calculateSimilarity"
    /\ op' = [name |-> "calculateSimilarity", query |-> op.query,
              content |-> op.content,
              ret |-> calculateSimilarity(op.query, [content |-> op.content])]
    /\ UNCHANGED <<documents, storage, now, appVars>>

\* searchRelevantChunk(query, content)
SearchRelevantChunk ==
    /\ op.name = "args" /\ op.of = "searchRelevantChunk"
    /\ op' = [name |-> "searchRelevantChunk", query |-> op.query,
              content |-> op.content,
              ret |-> searchRelevantChunk(op.query, op.content)]
    /\ UNCHANGED <<documents, storage, now, appVars>>

\* cosineSimilarity(a, b): an Error is thrown when the lengths differ.
CosineSimilarity ==
    /\ op.name = "args" /\ op.of = "cosineSimilarity"
    /\ op' = IF Len(op.a) # Len(op.b)
             THEN [name |-> "cosineSimilarity", a |-> op.a, b |-> op.b,
                   threw |-> TRUE]
             ELSE [name |-> "cosineSimilarity", a |-> op.a, b |-> op.b,
                   threw |-> FALSE, ret |-> cosineSimilarity(op.a, op.b)]
    /\ UNCHANGED <<documents, storage, now, appVars>>

\* One call of a scoring function: the arguments are drawn first.
InitText ==
    /\ documents = <<>>
    /\ storage = NoItem
    /\ now = 37
    /\ op \in {[name |-> "args", of |-> "tokenize", text |-> text] :
                   text \in TokenizeArgs}
          \cup {[name |-> "args", of |-> "calculateSimilarity",
                 query |-> query, content |-> content] :
                   query \in WordTexts, content \in WordTexts}
          \cup {[name |-> "args", of |-> "searchRelevantChunk",
                 query |-> query, content |-> content] :
                   query \in ChunkQueries, content \in ChunkContents}
          \cup {[name |-> "args", of |-> "cosineSimilarity", a |-> a, b |-> b] :
                   a \in Vectors, b \in Vectors}
    /\ PageInit

NextText ==
    \/ Tokenize
    \/ CalculateSimilarity
    \/ SearchRelevantChunk
    \/ CosineSimilarity

SpecText == InitText /\ [][NextText]_vars

----------------------------------------------------------------------------
(* The embedding store: search *)

\* The embeddings createEmbedding gives for a query, the empty output of
\* the model among them.
EmbedQueries == QueryEmbeddings \cup {<<>>}

\* The items the embedding store is constructed over: none; one document
\* with an embedding; a document that another version of the page saved
\* without the embedding property, followed by one with an embedding.
EmbedItems ==
    { NoItem,
      saveToLocalStorage(<<PersistedDocuments[1]>>, NoItem, FALSE),
      saveToLocalStorage(<<ragNewDocument(<<49>>, <<65, 108, 116>>,
                                          <<100, 97, 115>>, [source |-> "manual"], 37),
                           PersistedDocuments[2]>>, NoItem, FALSE) }

\* search(query, topK) of the embedding store hands its documents to
\* searchSimilar, which throws from cosineSimilarity when a document's
\* embedding and the query's differ in length.
KbSearch ==
    \E queryEmbedding \in EmbedQueries, topK \in 0..MaxTopK :
        /\ op' = IF lengthsDiffer(queryEmbedding, documents)
                 THEN [name |-> "kbSearch", query |-> queryEmbedding,
                       topK |-> topK, threw |-> TRUE]
                 ELSE [name |-> "kbSearch", query |-> queryEmbedding,
                       topK |-> topK, threw |-> FALSE,
                       ret |-> searchSimilar(queryEmbedding, documents, topK)]
        /\ UNCHANGED <<documents, storage, now, appVars>>

EmbedInit ==
    /\ storage \in EmbedItems
    /\ documents = loadFromLocalStorage(storage)
    /\ now = 37
    /\ op = [name |-> "new", caught |-> loadThrows(storage)]
    /\ PageInit

EmbedNext ==
    \/ AddDocument(TitleArgs, ContentArgs, MetadataArgs, {FALSE})
    \/ UpdateDocument(UpdateArgs, {FALSE})
    \/ RemoveDocument({FALSE})
    \/ Construct
    \/ KbSearch

SpecEmbed == EmbedInit /\ [][EmbedNext]_vars

----------------------------------------------------------------------------
(* The chat service: website ingestion *)

\* The first position from position from on at which pat occurs in s, 0 when
\* it occurs nowhere.
indexOf(s, pat, from) ==
    LET hits == {i \in from..(Len(s) - Len(pat) + 1) :
                    SubSeq(s, i, i + Len(pat) - 1) = pat}
    IN  IF hits = {} THEN 0 ELSE CHOOSE i \in hits : \A j \in hits : i <= j

\* The line terminators, which . does not match.
LineTerminators == {10, 13, 8232, 8233}

\* '<title>' and '</title>'
TitleOpen == <<60, 116, 105, 116, 108, 101, 62>>
TitleClose == <<60, 47, 116, 105, 116, 108, 101, 62>>

\* pat, given in lower case, stands at position i of s in any case (flag i).
matchesAt(s, pat, i) ==
    /\ i + Len(pat) - 1 <= Len(s)
    /\ \A k \in 1..Len(pat) : lowerChar(s[i + k - 1]) = pat[k]

\* The first position from position from on at which pat stands in s in any
\* case, 0 when it stands nowhere.
indexOfIgnoreCase(s, pat, from) ==
    LET hits == {i \in from..Len(s) : matchesAt(s, pat, i)}
    IN  IF hits = {} THEN 0 ELSE CHOOSE i \in hits : \A j \in hits : i <= j

\* html.match(/<title>(.*?)<\/title>/i): the places of the first '<title>'
\* that a '</title>' follows with no line terminator between, as
\* <<start of the group, end of the group>>; <<0, 0>> without a match.
titleMatch(html) ==
    LET close(i) == indexOfIgnoreCase(html, TitleClose, i + Len(TitleOpen))
        opens == {i \in 1..Len(html) :
                    /\ matchesAt(html, TitleOpen, i)
                    /\ close(i) > 0
                    /\ \A k \in (i + Len(TitleOpen))..(close(i) - 1) :
                           html[k] \notin LineTerminators}
    IN  IF opens = {} THEN <<0, 0>>
        ELSE LET i == CHOOSE o \in opens : \A j \in opens : o <= j
             IN  <<i + Len(TitleOpen), close(i) - 1>>

\* html.replace(/<name\b[^<]*(?:(?!<\/name>)<[^<]*)*<\/name>/gi, ''): every
\* element from open ('<name' before a word boundary) to the first close
\* ('</name>') after it is removed.
RECURSIVE removeElements(_, _, _)
removeElements(html, open, close) ==
    LET starts == {i \in 1..Len(html) :
                     /\ matchesAt(html, open, i)
                     /\ i + Len(open) > Len(html) \/ ~isWordChar(html[i + Len(open)])
                     /\ indexOfIgnoreCase(html, close, i + Len(open)) > 0}
    IN  IF starts = {} THEN html
        ELSE LET i == CHOOSE o \in starts : \A j \in starts : o <= j
                 j == indexOfIgnoreCase(html, close, i + Len(open))
             IN  SubSeq(html, 1, i - 1)
                 \o removeElements(SubSeq(html, j + Len(close), Len(html)), open, close)

\* s.replace(/<[^>]*>/g, ' '): every tag from a '<' to the first '>' after it
\* becomes a blank.
RECURSIVE stripTags(_)
stripTags(s) ==
    LET lt == indexOf(s, <<60>>, 1)
        gt == IF lt = 0 THEN 0 ELSE indexOf(s, <<62>>, lt + 1)
    IN  IF gt = 0 THEN s
        ELSE SubSeq(s, 1, lt - 1) \o <<32>> \o stripTags(SubSeq(s, gt + 1, Len(s)))

\* s.replace(/\s+/g, ' ').trim(): the pieces between runs of whitespace with
\* one blank between two of them.
collapseWhiteSpace(s) == joinWords(piecesFrom(s, 1, WhiteSpace))

\* '<script', '</script>', '<style', '</style>'
ScriptOpen == <<60, 115, 99, 114, 105, 112, 116>>
ScriptClose == <<60, 47, 115, 99, 114, 105, 112, 116, 62>>
StyleOpen == <<60, 115, 116, 121, 108, 101>>
StyleClose == <<60, 47, 115, 116, 121, 108, 101, 62>>

\* The title addWebsiteContent gives the document: the trimmed <title>, or
\* the url when the page has none.
pageTitle(url, html) ==
    IF titleMatch(html) = <<0, 0>> THEN url
    ELSE trim(SubSeq(html, titleMatch(html)[1], titleMatch(html)[2]))

\* The content addWebsiteContent extracts: scripts and styles removed, tags
\* replaced by blanks, whitespace collapsed, trimmed.
pageContent(html) ==
    collapseWhiteSpace(stripTags(
        removeElements(removeElements(html, ScriptOpen, ScriptClose),
                       StyleOpen, StyleClose)))

\* The length the extracted content must exceed.
MinContentLength == 100

\* A push that writes over the last element.
overwriteLast(arr, x) ==
    IF arr = <<>> THEN <<x>> ELSE [arr EXCEPT ![Len(arr)] = x]

\* this.documents.push(document)
push(arr, x) == Append(arr, x)

\* Most ingestion calls started in one session.
MaxCalls == 2

\* n times the letter x
filler(n) == [i \in 1..n |-> 120]

\* A page with a title, a script and one paragraph of n letters:
\* <html><head><title> Seite </title><script>if (a < b) {}</script></head>
\* <body><p>xx...x</p></body></html>, whose extracted content is 'Seite '
\* followed by the n letters.
page(n) ==
    <<60, 104, 116, 109, 108, 62, 60, 104, 101, 97, 100, 62, 60, 116, 105, 116, 108, 101, 62, 32, 83, 101, 105, 116, 101, 32, 60, 47, 116, 105, 116, 108, 101, 62, 60, 115, 99, 114, 105, 112, 116, 62, 105, 102, 32, 40, 97, 32, 60, 32, 98, 41, 32, 123, 125, 60, 47, 115, 99, 114, 105, 112, 116, 62, 60, 47, 104, 101, 97, 100, 62, 10, 60, 98, 111, 100, 121, 62, 60, 112, 62>>
    \o filler(n) \o <<60, 47, 112, 62, 60, 47, 98, 111, 100, 121, 62, 60, 47, 104, 116, 109, 108, 62>>

\* The pages fetched: the url 'u' answers with a page whose extracted content
\* has MinContentLength - 1, MinContentLength or MinContentLength + 1
\* characters, or with a paragraph of MinContentLength + 1 letters without
\* a title.
WebPages ==
    {[url |-> <<117>>, html |-> page(n)] :
        n \in (MinContentLength - 7)..(MinContentLength - 5)}
    \cup {[url |-> <<117>>,
           html |-> <<60, 112, 62>> \o filler(MinContentLength + 1)
                    \o <<60, 47, 112, 62>>]}

\* The pages fetched while other calls are pending: extracted contents of
\* MinContentLength and of MinContentLength + 1 characters.
IngestPages ==
    {[url |-> <<117>>, html |-> page(n)] :
        n \in (MinContentLength - 6)..(MinContentLength - 5)}

\* The files uploaded: 'a.txt' of type text/plain holding ' RAG ist. ', and
\* 'a.exe' of type application/octet-stream.
Files ==
    { [name |-> <<97, 46, 116, 120, 116>>, type |-> "text/plain",
       text |-> <<32, 82, 65, 71, 32, 105, 115, 116, 46, 32>>],
      [name |-> <<97, 46, 101, 120, 101>>, type |-> "application/octet-stream",
       text |-> <<>>] }

\* addFileContent reads these files with file.text(); every other type
\* modelled is unsupported.
isTextFile(file) == file.type = "text/plain"

\* Calls that still run.
Pending == {i \in 1..Len(calls) : calls[i].pc \notin {"done", "failed"}}

\* addDocument of the lexical store, called by call i with the given title,
\* content and metadata: the document is pushed and the store saved before
\* the call suspends on the promise returned.
IngestAdd(i, title, content, metadata, kind) ==
    \E rnd \in Randoms, setItemThrows \in BOOLEAN :
        LET id == generateId(now, rnd)
        IN  /\ documents' = push(documents,
                                 ragNewDocument(id, title, content, metadata, now))
            /\ storage' = saveToLocalStorage(documents', storage, setItemThrows)
            /\ op' = [name |-> "add", title |-> title, content |-> content,
                      metadata |-> metadata, threw |-> FALSE, ret |-> id,
                      saved |-> saveCompletes(documents', setItemThrows)]
            /\ calls' = IF i > Len(calls)
                        THEN Append(calls, [kind |-> kind, pc |-> "added",
                                            title |-> title, content |-> content,
                                            id |-> id])
                        ELSE [calls EXCEPT ![i] =
                                 [kind |-> kind, pc |-> "added", title |-> title,
                                  content |-> content, id |-> id]]
            /\ UNCHANGED <<now, ui, requests>>

\* The page calls ragService.addWebsiteContent(url): the call suspends on
\* fetch(url).
StartWebsite(pages) ==
    \E p \in pages :
        /\ Len(calls) < MaxCalls
        /\ calls' = Append(calls, [kind |-> "website", pc |-> "fetch",
                                   url |-> p.url, html |-> p.html])
        /\ UNCHANGED <<documents, storage, now, op, ui, requests>>

\* fetch resolves: the call suspends on response.text().
FetchResolves ==
    \E i \in 1..Len(calls) :
        /\ calls[i].kind = "website" /\ calls[i].pc = "fetch"
        /\ calls' = [calls EXCEPT ![i].pc = "text"]
        /\ UNCHANGED <<documents, storage, now, op, ui, requests>>

\* fetch or response.text() rejects: the catch clause logs and throws again.
FetchRejects ==
    \E i \in 1..Len(calls) :
        /\ calls[i].kind = "website" /\ calls[i].pc \in {"fetch", "text"}
        /\ calls' = [calls EXCEPT ![i].pc = "failed"]
        /\ UNCHANGED <<documents, storage, now, op, ui, requests>>

\* response.text() resolves with the html: title and content are extracted,
\* and the content is added when longer than MinContentLength; otherwise an
\* Error is thrown.
TextResolves ==
    \E i \in 1..Len(calls) :
        /\ calls[i].kind = "website" /\ calls[i].pc = "text"
        /\ \E title \in {pageTitle(calls[i].url, calls[i].html)},
              content \in {pageContent(calls[i].html)} :
              IF Len(content) > MinContentLength
              THEN IngestAdd(i, title, content,
                             [source |-> "website", url |-> calls[i].url], "website")
              ELSE /\ calls' = [calls EXCEPT ![i] =
                                   [kind |-> "website", pc |-> "failed",
                                    url |-> calls[i].url, html |-> calls[i].html,
                                    content |-> content]]
                   /\ UNCHANGED <<documents, storage, now, op, ui, requests>>

\* The page calls ragService.addFileContent(file): the call suspends on
\* file.text(), or fails at once on an unsupported type.
StartFile ==
    \E file \in Files :
        /\ Len(calls) < MaxCalls
        /\ calls' = Append(calls, [kind |-> "file",
                                   pc |-> IF isTextFile(file) THEN "read" ELSE "failed",
                                   file |-> file])
        /\ UNCHANGED <<documents, storage, now, op, ui, requests>>

\* file.text() resolves: the content is added under the file's name.
ReadResolves ==
    \E i \in 1..Len(calls) :
        /\ calls[i].kind = "file" /\ calls[i].pc = "read"
        /\ IngestAdd(i, calls[i].file.name, calls[i].file.text,
                     [source |-> "upload", fileType |-> calls[i].file.type], "file")

\* file.text() rejects: the catch clause logs and throws again.
ReadRejects ==
    \E i \in 1..Len(calls) :
        /\ calls[i].kind = "file" /\ calls[i].pc = "read"
        /\ calls' = [calls EXCEPT ![i].pc = "failed"]
        /\ UNCHANGED <<documents, storage, now, op, ui, requests>>

\* The page calls addDocument of the store itself, as
\* initializeTestcompanyContent does: the body runs at once.
StartAdd ==
    /\ Len(calls) < MaxCalls
    /\ IngestAdd(Len(calls) + 1, <<78, 101, 117>>,
                 <<32, 82, 65, 71, 32, 105, 115, 116, 46, 32>>,
                 [source |-> "manual"], "add")

\* The promise of addDocument settles and the call returns the id.
AddSettles ==
    \E i \in 1..Len(calls) :
        /\ calls[i].pc = "added"
        /\ calls' = [calls EXCEPT ![i].pc = "done"]
        /\ UNCHANGED <<documents, storage, now, op, ui, requests>>

\* One session of ingestion over the store loaded from PersistedDocuments;
\* localStorage.setItem may throw on any write.
IngestNext ==
    \/ StartWebsite(IngestPages)
    \/ FetchResolves
    \/ FetchRejects
    \/ TextResolves
    \/ StartFile
    \/ ReadResolves
    \/ ReadRejects
    \/ StartAdd
    \/ AddSettles

SpecIngest == RagInit /\ [][IngestNext]_vars

\* Website ingestion alone, one call after the other.
WebsiteNext ==
    \/ Pending = {} /\ StartWebsite(WebPages)
    \/ FetchResolves
    \/ FetchRejects
    \/ TextResolves
    \/ AddSettles

SpecWebsite == RagInit /\ [][WebsiteNext]_vars

----------------------------------------------------------------------------
(* The chat service: chatWithRAG *)

\* 'Du bist ein hilfreicher AI-Assistent. '
PromptHead ==
    <<68, 117, 32, 98, 105, 115, 116, 32, 101, 105, 110, 32, 104, 105, 108,
      102, 114, 101, 105, 99, 104, 101, 114, 32, 65, 73, 45, 65, 115, 115,
      105, 115, 116, 101, 110, 116, 46, 32>>

\* 'Nutze die folgenden Informationen aus der Knowledge-Base, um präzise
\* Antworten zu geben:\n\n'
PromptBeforeContext ==
    <<78, 117, 116, 122, 101, 32, 100, 105, 101, 32, 102, 111, 108, 103,
      101, 110, 100, 101, 110, 32, 73, 110, 102, 111, 114, 109, 97, 116,
      105, 111, 110, 101, 110, 32, 97, 117, 115, 32, 100, 101, 114, 32, 75,
      110, 111, 119, 108, 101, 100, 103, 101, 45, 66, 97, 115, 101, 44, 32,
      117, 109, 32, 112, 114, 228, 122, 105, 115, 101, 32, 65, 110, 116,
      119, 111, 114, 116, 101, 110, 32, 122, 117, 32, 103, 101, 98, 101,
      110, 58, 10, 10>>

\* '\n\nAnweisungen:'
PromptAfterContext ==
    <<10, 10, 65, 110, 119, 101, 105, 115, 117, 110, 103, 101, 110, 58>>

\* 'Anweisungen:'
PromptNoContext ==
    <<65, 110, 119, 101, 105, 115, 117, 110, 103, 101, 110, 58>>

\* '\n- Beantworte Fragen basierend auf deinem Wissen'
PromptFirstRule ==
    <<10, 45, 32, 66, 101, 97, 110, 116, 119, 111, 114, 116, 101, 32, 70,
      114, 97, 103, 101, 110, 32, 98, 97, 115, 105, 101, 114, 101, 110,
      100, 32, 97, 117, 102, 32, 100, 101, 105, 110, 101, 109, 32, 87, 105,
      115, 115, 101, 110>>

\* ' und den bereitgestellten Informationen'
PromptFirstRuleWithContext ==
    <<32, 117, 110, 100, 32, 100, 101, 110, 32, 98, 101, 114, 101, 105,
      116, 103, 101, 115, 116, 101, 108, 108, 116, 101, 110, 32, 73, 110,
      102, 111, 114, 109, 97, 116, 105, 111, 110, 101, 110>>

\* The three rules that follow, each on its own line.
PromptRules ==
    <<10, 45, 32, 87, 101, 110, 110, 32, 100, 117, 32, 73, 110, 102, 111,
      114, 109, 97, 116, 105, 111, 110, 101, 110, 32, 97, 117, 115, 32,
      100, 101, 114, 32, 75, 110, 111, 119, 108, 101, 100, 103, 101, 45,
      66, 97, 115, 101, 32, 118, 101, 114, 119, 101, 110, 100, 101, 115,
      116, 44, 32, 101, 114, 119, 228, 104, 110, 101, 32, 100, 105, 101,
      32, 101, 110, 116, 115, 112, 114, 101, 99, 104, 101, 110, 100, 101,
      32, 81, 117, 101, 108, 108, 101, 10, 45, 32, 83, 101, 105, 32, 112,
      114, 228, 122, 105, 115, 101, 44, 32, 104, 105, 108, 102, 114, 101,
      105, 99, 104, 32, 117, 110, 100, 32, 104, 246, 102, 108, 105, 99,
      104, 10, 45, 32, 87, 101, 110, 110, 32, 100, 117, 32, 100, 105, 114,
      32, 98, 101, 105, 32, 101, 116, 119, 97, 115, 32, 117, 110, 115, 105,
      99, 104, 101, 114, 32, 98, 105, 115, 116, 44, 32, 115, 97, 103, 101,
      32, 100, 97, 115, 32, 101, 104, 114, 108, 105, 99, 104>>

\* The response of chatWithRAG after an exception.
ApologyText ==
    <<69, 110, 116, 115, 99, 104, 117, 108, 100, 105, 103, 117, 110, 103,
      44, 32, 101, 115, 32, 103, 97, 98, 32, 101, 105, 110, 101, 110, 32,
      70, 101, 104, 108, 101, 114, 32, 98, 101, 105, 32, 100, 101, 114, 32,
      86, 101, 114, 97, 114, 98, 101, 105, 116, 117, 110, 103, 32, 73, 104,
      114, 101, 114, 32, 65, 110, 102, 114, 97, 103, 101, 46, 32, 66, 105,
      116, 116, 101, 32, 118, 101, 114, 115, 117, 99, 104, 101, 110, 32,
      83, 105, 101, 32, 101, 115, 32, 101, 114, 110, 101, 117, 116, 46>>

\* The response when the completion has no choices.
NoAnswerText ==
    <<69, 110, 116, 115, 99, 104, 117, 108, 100, 105, 103, 117, 110, 103,
      44, 32, 105, 99, 104, 32, 107, 111, 110, 110, 116, 101, 32, 107, 101,
      105, 110, 101, 32, 65, 110, 116, 119, 111, 114, 116, 32, 103, 101,
      110, 101, 114, 105, 101, 114, 101, 110, 46>>

\* The response when the first choice has no string content.
NoValidAnswerText ==
    <<69, 110, 116, 115, 99, 104, 117, 108, 100, 105, 103, 117, 110, 103,
      44, 32, 105, 99, 104, 32, 107, 111, 110, 110, 116, 101, 32, 107, 101,
      105, 110, 101, 32, 103, 252, 108, 116, 105, 103, 101, 32, 65, 110,
      116, 119, 111, 114, 116, 32, 103, 101, 110, 101, 114, 105, 101, 114,
      101, 110, 46>>

\* `[Quelle ${index + 1}] ${result.document.title}:\n${result.relevantChunk}`
\* for the result at index + 1 = n (n < 10).
sourceBlock(result, n) ==
    <<91, 81, 117, 101, 108, 108, 101, 32>> \o <<48 + n>> \o <<93, 32>>
    \o result.document.title \o <<58, 10>> \o result.relevantChunk

\* The blocks of the results from result n on, joined by '\n\n'.
RECURSIVE contextFrom(_, _)
contextFrom(searchResults, n) ==
    IF n > Len(searchResults) THEN <<>>
    ELSE sourceBlock(searchResults[n], n)
         \o (IF n < Len(searchResults) THEN <<10, 10>> ELSE <<>>)
         \o contextFrom(searchResults, n + 1)

\* The system prompt built around the context ('' is falsy).
systemPrompt(context) ==
    PromptHead
    \o (IF context # <<>>
        THEN PromptBeforeContext \o context \o PromptAfterContext
        ELSE PromptNoContext)
    \o PromptFirstRule
    \o (IF context # <<>> THEN PromptFirstRuleWithContext ELSE <<>>)
    \o PromptRules

\* conversationHistory.slice(-6)
sliceLast6(arr) == SubSeq(arr, IF Len(arr) > 6 THEN Len(arr) - 5 ELSE 1, Len(arr))

\* The messages chatWithRAG sends: the system prompt, the recent history
\* reduced to role and content, the user's query.
chatMessages(searchResults, userQuery, conversationHistory) ==
    << [role |-> "system",
        content |-> systemPrompt(contextFrom(searchResults, 1))] >>
    \o [k \in 1..Len(sliceLast6(conversationHistory)) |->
           [role |-> sliceLast6(conversationHistory)[k].role,
            content |-> sliceLast6(conversationHistory)[k].content]]
    \o << [role |-> "user", content |-> userQuery] >>

\* The sources chatWithRAG collects: the documents of the results, in order.
sourcesOf(searchResults) ==
    [k \in 1..Len(searchResults) |-> searchResults[k].document]

\* A document without a content (a blob can hold one) makes
\* document.content.toLowerCase() throw a TypeError inside search.
searchThrows(docs) == \E i \in 1..Len(docs) : ~Has(docs[i], "content")

\* A catch clause that returns the sources collected before the failure.
caughtWithSources(searchResults) ==
    [response |-> ApologyText, sources |-> sourcesOf(searchResults)]

\* The value the catch clause of chatWithRAG returns.
caughtResult(searchResults) == [response |-> ApologyText, sources |-> <<>>]

\* The response chatWithRAG takes from a completion: the string content of
\* the first choice, or one of two fixed texts.
assistantResponse(response) ==
    IF response.kind = "nochoices" THEN NoAnswerText
    ELSE IF response.kind = "text" THEN response.content
    ELSE NoValidAnswerText

\* chatWithRAG up to its first await: search(userQuery, 3) has run on the
\* documents of the moment.
newChat(kind, userQuery, conversationHistory, docs) ==
    [kind |-> kind, pc |-> "search", userQuery |-> userQuery,
     conversationHistory |-> conversationHistory,
     threw |-> searchThrows(docs),
     searchResults |-> IF searchThrows(docs) THEN <<>> ELSE search(docs, userQuery, 3),
     failed |-> FALSE,
     result |-> [response |-> <<>>, sources |-> <<>>]]

\* Completions of the upstream API: a first choice with the content 'ok',
\* with the content '', with a content that is no string, and no choice.
Completions ==
    { [kind |-> "text", content |-> <<111, 107>>],
      [kind |-> "text", content |-> <<>>],
      [kind |-> "other"],
      [kind |-> "nochoices"] }

\* chatWithRAG resumes after search: an exception of search ends in the
\* catch clause; otherwise the messages are built and the completion
\* request is sent.
SearchSettles ==
    \E i \in 1..Len(calls) :
        /\ calls[i].kind \in {"send", "test"} /\ calls[i].pc = "search"
        /\ IF calls[i].threw
           THEN /\ calls' = [calls EXCEPT ![i].pc = "resolved",
                                          ![i].failed = TRUE,
                                          ![i].result = caughtResult(calls[i].searchResults)]
                /\ op' = [name |-> "chatWithRAG", call |-> i, failed |-> TRUE,
                          ret |-> caughtResult(calls[i].searchResults)]
                /\ UNCHANGED requests
           ELSE /\ requests' = Append(requests,
                      [by |-> i,
                       messages |-> chatMessages(calls[i].searchResults,
                                                 calls[i].userQuery,
                                                 calls[i].conversationHistory)])
                /\ calls' = [calls EXCEPT ![i].pc = "completing"]
                /\ UNCHANGED op
        /\ UNCHANGED <<documents, storage, now, ui>>

\* The completion request resolves: chatWithRAG returns the response and
\* the sources.
CompletionResolves ==
    \E i \in 1..Len(calls), response \in Completions :
        /\ calls[i].kind \in {"send", "test"} /\ calls[i].pc = "completing"
        /\ calls' = [calls EXCEPT ![i].pc = "resolved",
                                  ![i].failed = FALSE,
                                  ![i].result =
                                      [response |-> assistantResponse(response),
                                       sources |-> sourcesOf(calls[i].searchResults)]]
        /\ op' = [name |-> "chatWithRAG", call |-> i, failed |-> FALSE,
                  ret |-> [response |-> assistantResponse(response),
                           sources |-> sourcesOf(calls[i].searchResults)]]
        /\ UNCHANGED <<documents, storage, now, ui, requests>>

\* The completion request rejects: the catch clause logs and returns the
\* apology without sources.
CompletionRejects ==
    \E i \in 1..Len(calls) :
        /\ calls[i].kind \in {"send", "test"} /\ calls[i].pc = "completing"
        /\ calls' = [calls EXCEPT ![i].pc = "resolved",
                                  ![i].failed = TRUE,
                                  ![i].result = caughtResult(calls[i].searchResults)]
        /\ op' = [name |-> "chatWithRAG", call |-> i, failed |-> TRUE,
                  ret |-> caughtResult(calls[i].searchResults)]
        /\ UNCHANGED <<documents, storage, now, ui, requests>>

----------------------------------------------------------------------------
(* The page: sendMessage *)

\* Most requests sendMessage starts in one session.
MaxSends == 2

\* Texts typed into the chat input: 'rag', ' ' and ' Was ist RAG? '.
InputTexts ==
    { <<114, 97, 103>>, <<32>>,
      <<32, 87, 97, 115, 32, 105, 115, 116, 32, 82, 65, 71, 63, 32>> }

\* The values a render of App closes over.
closure(u) ==
    [messages |-> u.messages, inputMessage |-> u.inputMessage,
     isLoading |-> u.isLoading]

\* The state after React has rendered it: the handlers now see it.
rendered(u) == [u EXCEPT !.shown = closure(u)]

\* sendMessage that starts a request whatever the input and isLoading.
returnsNever(inputMessage, isLoading) == FALSE

\* if (!inputMessage.trim() || !ragService || isLoading) return; with the
\* service constructed.
returnsEarly(inputMessage, isLoading) == trim(inputMessage) = <<>> \/ isLoading

\* A history that holds the new user message already.
historyWithNewTurn(messages, userMessage) == Append(messages, userMessage)

\* The history sendMessage passes to chatWithRAG: messages as the handler
\* closed over it, without the user message it has just queued.
historyPassed(messages, userMessage) == messages

\* onChange of the chat input, which is disabled while isLoading is shown.
TypeInput ==
    \E text \in InputTexts :
        /\ ~ui.shown.isLoading
        /\ ui.inputMessage # text
        /\ ui' = rendered([ui EXCEPT !.inputMessage = text])
        /\ UNCHANGED <<documents, storage, now, op, calls, requests>>

\* sendMessage, triggered by Enter or by the send button: it returns at
\* once, or queues the user message, clears the input, sets isLoading and
\* calls chatWithRAG; React renders when the handler has suspended.
SendMessage ==
    IF returnsEarly(ui.shown.inputMessage, ui.shown.isLoading)
    THEN /\ op' = [name |-> "sendMessage", started |-> FALSE]
         /\ UNCHANGED <<documents, storage, now, ui, calls, requests>>
    ELSE LET userMessage == [id |-> now, role |-> "user",
                             content |-> trim(ui.shown.inputMessage)]
         IN  /\ Cardinality({i \in 1..Len(calls) : calls[i].kind = "send"}) < MaxSends
             /\ ui' = rendered([ui EXCEPT !.messages = Append(@, userMessage),
                                          !.inputMessage = <<>>,
                                          !.isLoading = TRUE])
             /\ calls' = Append(calls,
                    newChat("send", ui.shown.inputMessage,
                            historyPassed(ui.shown.messages, userMessage),
                            documents))
             /\ op' = [name |-> "sendMessage", started |-> TRUE]
             /\ UNCHANGED <<documents, storage, now, requests>>

\* sendMessage resumes with the result of chatWithRAG: the assistant
\* message is queued and isLoading reset.
SendSettles ==
    \E i \in 1..Len(calls) :
        /\ calls[i].kind = "send" /\ calls[i].pc = "resolved"
        /\ ui' = [ui EXCEPT
                    !.messages = Append(@,
                        IF Len(calls[i].result.sources) > 0
                        THEN [id |-> now + 1, role |-> "assistant",
                              content |-> calls[i].result.response,
                              sources |-> calls[i].result.sources]
                        ELSE [id |-> now + 1, role |-> "assistant",
                              content |-> calls[i].result.response]),
                    !.isLoading = FALSE]
        /\ calls' = [calls EXCEPT ![i].pc = "done"]
        /\ UNCHANGED <<documents, storage, now, op, requests>>

\* React renders the state queued outside an event handler.
Render ==
    /\ ui.shown # closure(ui)
    /\ ui' = rendered(ui)
    /\ UNCHANGED <<documents, storage, now, op, calls, requests>>

\* A store of four documents 'A'..'D' that all hold the word rag: 'rag',
\* 'rag ist', 'was ist rag.' and 'rag es'.
ChatDocuments ==
    << ragNewDocument(<<49>>, <<65>>, <<114, 97, 103>>, [source |-> "manual"], 37),
       ragNewDocument(<<50>>, <<66>>, <<114, 97, 103, 32, 105, 115, 116>>,
                      [source |-> "manual"], 37),
       ragNewDocument(<<51>>, <<67>>,
                      <<119, 97, 115, 32, 105, 115, 116, 32, 114, 97, 103, 46>>,
                      [source |-> "upload"], 37),
       ragNewDocument(<<52>>, <<68>>, <<114, 97, 103, 32, 101, 115>>,
                      [source |-> "manual"], 37) >>

\* An item another version of the page wrote: its one document has no
\* content.
ContentlessItem ==
    JSONstringify(<<[id |-> <<49>>, title |-> <<65>>,
                     metadata |-> [source |-> "manual",
                                   createdAt |-> toISOString(37)]]>>)

\* The items the page finds under its key when it loads.
ChatItems == {saveToLocalStorage(ChatDocuments, NoItem, FALSE), ContentlessItem}

\* The conversation after n messages: the welcome message, then user and
\* assistant in turn, with the contents '1', '2', ...
conversation(n) ==
    [k \in 1..n |-> [id |-> k,
                     role |-> IF k % 2 = 1 THEN "assistant" ELSE "user",
                     content |-> <<48 + k>>]]

\* The conversations a session starts from: none, the welcome message and
\* two exchanges, the welcome message and three exchanges.
Conversations == {conversation(0), conversation(5), conversation(7)}

ChatInit ==
    \E item \in ChatItems, messages \in Conversations :
        /\ now = 37
        /\ storage = item
        /\ op = [name |-> "new", caught |-> loadThrows(item)]
        /\ documents = initializeDefaultKnowledge(loadFromLocalStorage(item), now,
                                                  [i \in 1..Len(DefaultKnowledge) |-> <<>>])
        /\ ui = rendered([messages |-> messages, inputMessage |-> <<>>,
                          isLoading |-> FALSE,
                          connectionStatus |-> IF messages = <<>> THEN "connecting"
                                               ELSE "connected",
                          shown |-> <<>>])
        /\ calls = <<>>
        /\ requests = <<>>

ChatNext ==
    \/ TypeInput
    \/ SendMessage
    \/ SearchSettles
    \/ CompletionResolves
    \/ CompletionRejects
    \/ SendSettles
    \/ Render

SpecChat == ChatInit /\ [][ChatNext]_vars

----------------------------------------------------------------------------
(* The page: the connection test and the Testcompany documents *)

\* 'Testcompany'
Testcompany ==
    <<84, 101, 115, 116, 99, 111, 109, 112, 97, 110, 121>>

\* 'Hello, are you working?'
TestQuery ==
    <<72, 101, 108, 108, 111, 44, 32, 97, 114, 101, 32, 121, 111, 117, 32,
      119, 111, 114, 107, 105, 110, 103, 63>>

\* The content of the welcome message.
WelcomeText ==
    <<72, 97, 108, 108, 111, 33, 32, 73, 99, 104, 32, 98, 105, 110, 32, 73,
      104, 114, 32, 65, 73, 45, 65, 115, 115, 105, 115, 116, 101, 110, 116,
      32, 109, 105, 116, 32, 117, 109, 102, 97, 110, 103, 114, 101, 105,
      99, 104, 101, 110, 32, 73, 110, 102, 111, 114, 109, 97, 116, 105,
      111, 110, 101, 110, 32, 252, 98, 101, 114, 32, 84, 101, 115, 116, 99,
      111, 109, 112, 97, 110, 121, 46, 32, 73, 99, 104, 32, 107, 97, 110,
      110, 32, 73, 104, 110, 101, 110, 32, 98, 101, 105, 32, 70, 114, 97,
      103, 101, 110, 32, 122, 117, 32, 117, 110, 115, 101, 114, 101, 110,
      32, 214, 102, 102, 110, 117, 110, 103, 115, 122, 101, 105, 116, 101,
      110, 32, 40, 77, 111, 45, 70, 114, 58, 32, 48, 57, 58, 48, 48, 45,
      49, 56, 58, 48, 48, 44, 32, 83, 97, 58, 32, 49, 48, 58, 48, 48, 45,
      49, 52, 58, 48, 48, 41, 44, 32, 68, 105, 101, 110, 115, 116, 108,
      101, 105, 115, 116, 117, 110, 103, 101, 110, 44, 32, 75, 111, 110,
      116, 97, 107, 116, 100, 97, 116, 101, 110, 32, 117, 110, 100, 32,
      118, 105, 101, 108, 101, 109, 32, 109, 101, 104, 114, 32, 104, 101,
      108, 102, 101, 110, 46, 32, 87, 105, 101, 32, 107, 97, 110, 110, 32,
      105, 99, 104, 32, 73, 104, 110, 101, 110, 32, 104, 101, 117, 116,
      101, 32, 104, 101, 108, 102, 101, 110, 63>>

\* testcompanyDocs: the titles, and of each content its first line.
testcompanyDocs ==
    <<
      \* 'Testcompany - Übersicht und Geschäftsbeschreibung'
      [title |->
            <<84, 101, 115, 116, 99, 111, 109, 112, 97, 110, 121, 32, 45, 32, 220,
              98, 101, 114, 115, 105, 99, 104, 116, 32, 117, 110, 100, 32, 71, 101,
              115, 99, 104, 228, 102, 116, 115, 98, 101, 115, 99, 104, 114, 101,
              105, 98, 117, 110, 103>>,
       content |->
            <<84, 101, 115, 116, 99, 111, 109, 112, 97, 110, 121, 32, 105, 115,
              116, 32, 101, 105, 110, 32, 122, 117, 107, 117, 110, 102, 116, 115,
              111, 114, 105, 101, 110, 116, 105, 101, 114, 116, 101, 114, 32, 65,
              110, 98, 105, 101, 116, 101, 114, 32, 118, 111, 110, 32, 87, 111,
              114, 107, 115, 112, 97, 99, 101, 45, 76, 246, 115, 117, 110, 103,
              101, 110, 32, 117, 110, 100, 32, 73, 110, 110, 101, 110, 97, 114, 99,
              104, 105, 116, 101, 107, 116, 117, 114, 45, 75, 111, 110, 122, 101,
              112, 116, 101, 110, 46, 32>>],
      \* 'Testcompany - Öffnungszeiten'
      [title |->
            <<84, 101, 115, 116, 99, 111, 109, 112, 97, 110, 121, 32, 45, 32, 214,
              102, 102, 110, 117, 110, 103, 115, 122, 101, 105, 116, 101, 110>>,
       content |->
            <<68, 105, 101, 32, 214, 102, 102, 110, 117, 110, 103, 115, 122, 101,
              105, 116, 101, 110, 32, 118, 111, 110, 32, 84, 101, 115, 116, 99,
              111, 109, 112, 97, 110, 121, 32, 115, 105, 110, 100, 58>>],
      \* 'Testcompany - Kontaktinformationen'
      [title |->
            <<84, 101, 115, 116, 99, 111, 109, 112, 97, 110, 121, 32, 45, 32, 75,
              111, 110, 116, 97, 107, 116, 105, 110, 102, 111, 114, 109, 97, 116,
              105, 111, 110, 101, 110>>,
       content |->
            <<75, 111, 110, 116, 97, 107, 116, 100, 97, 116, 101, 110, 32, 118,
              111, 110, 32, 84, 101, 115, 116, 99, 111, 109, 112, 97, 110, 121, 58>>],
      \* 'Testcompany - Kerndienstleistungen'
      [title |->
            <<84, 101, 115, 116, 99, 111, 109, 112, 97, 110, 121, 32, 45, 32, 75,
              101, 114, 110, 100, 105, 101, 110, 115, 116, 108, 101, 105, 115, 116,
              117, 110, 103, 101, 110>>,
       content |->
            <<84, 101, 115, 116, 99, 111, 109, 112, 97, 110, 121, 32, 98, 105, 101,
              116, 101, 116, 32, 102, 111, 108, 103, 101, 110, 100, 101, 32, 75,
              101, 114, 110, 100, 105, 101, 110, 115, 116, 108, 101, 105, 115, 116,
              117, 110, 103, 101, 110, 32, 97, 110, 58>>],
      \* 'Testcompany - Team und Philosophie'
      [title |->
            <<84, 101, 115, 116, 99, 111, 109, 112, 97, 110, 121, 32, 45, 32, 84,
              101, 97, 109, 32, 117, 110, 100, 32, 80, 104, 105, 108, 111, 115,
              111, 112, 104, 105, 101>>,
       content |->
            <<68, 97, 115, 32, 109, 117, 108, 116, 105, 100, 105, 115, 122, 105,
              112, 108, 105, 110, 228, 114, 101, 32, 84, 101, 97, 109, 32, 118,
              111, 110, 32, 84, 101, 115, 116, 99, 111, 109, 112, 97, 110, 121, 32,
              117, 109, 102, 97, 115, 115, 116, 32, 65, 114, 99, 104, 105, 116,
              101, 107, 116, 101, 110, 44, 32, 68, 101, 115, 105, 103, 110, 101,
              114, 44, 32, 73, 110, 103, 101, 110, 105, 101, 117, 114, 101, 32,
              117, 110, 100, 32, 72, 97, 110, 100, 119, 101, 114, 107, 101, 114,
              46, 32>>],
      \* 'Testcompany - Kundenbewertungen'
      [title |->
            <<84, 101, 115, 116, 99, 111, 109, 112, 97, 110, 121, 32, 45, 32, 75,
              117, 110, 100, 101, 110, 98, 101, 119, 101, 114, 116, 117, 110, 103,
              101, 110>>,
       content |->
            <<75, 117, 110, 100, 101, 110, 115, 116, 105, 109, 109, 101, 32, 118,
              111, 110, 32, 77, 97, 120, 32, 82, 46, 32, 97, 117, 115, 32, 72, 97,
              109, 98, 117, 114, 103, 58, 32, 34, 68, 105, 101, 32, 90, 117, 115,
              97, 109, 109, 101, 110, 97, 114, 98, 101, 105, 116, 32, 109, 105,
              116, 32, 84, 101, 115, 116, 99, 111, 109, 112, 97, 110, 121, 32, 119,
              97, 114, 32, 101, 105, 110, 32, 87, 101, 110, 100, 101, 112, 117,
              110, 107, 116, 46, 32>>],
      \* 'Testcompany - Nachhaltigkeit'
      [title |->
            <<84, 101, 115, 116, 99, 111, 109, 112, 97, 110, 121, 32, 45, 32, 78,
              97, 99, 104, 104, 97, 108, 116, 105, 103, 107, 101, 105, 116>>,
       content |->
            <<84, 101, 115, 116, 99, 111, 109, 112, 97, 110, 121, 32, 108, 101,
              103, 116, 32, 103, 114, 111, 223, 101, 110, 32, 87, 101, 114, 116,
              32, 97, 117, 102, 32, 78, 97, 99, 104, 104, 97, 108, 116, 105, 103,
              107, 101, 105, 116, 46, 32, 87, 105, 114, 32, 112, 114, 105, 111,
              114, 105, 115, 105, 101, 114, 101, 110, 32, 117, 109, 119, 101, 108,
              116, 102, 114, 101, 117, 110, 100, 108, 105, 99, 104, 101, 32, 77,
              97, 116, 101, 114, 105, 97, 108, 105, 101, 110, 44, 32>>],
      \* 'Testcompany - FAQ'
      [title |->
            <<84, 101, 115, 116, 99, 111, 109, 112, 97, 110, 121, 32, 45, 32, 70,
              65, 81>>,
       content |->
            <<72, 228, 117, 102, 105, 103, 32, 103, 101, 115, 116, 101, 108, 108,
              116, 101, 32, 70, 114, 97, 103, 101, 110, 32, 122, 117, 32, 84, 101,
              115, 116, 99, 111, 109, 112, 97, 110, 121, 58>>]
    >>

\* The runs of the startup effect in one session: React.StrictMode mounts
\* App, runs its effects, and runs them once more.
EffectRuns == 2

\* A check that never finds Testcompany content.
hasNoContent(docs) == FALSE

\* existingDocs.some(doc => doc.title.includes('Testcompany'))
hasTestcompanyContent(docs) ==
    \E k \in 1..Len(docs) : isSubstring(Testcompany, docs[k].title)

\* The truth value of testResult.response: a string is truthy unless empty.
truthy(response) == response # <<>>

\* kb.addDocument(doc.title, doc.content, {source: 'manual'}) of the loop
\* of initializeTestcompanyContent, by the call i of testConnection.
TestcompanyAdd(i, doc, rnds) ==
    \E rnd \in rnds, setItemThrows \in BOOLEAN :
        LET id == generateId(now, rnd)
        IN  /\ documents' = push(documents,
                                 ragNewDocument(id, doc.title, doc.content,
                                                [source |-> "manual"], now))
            /\ storage' = saveToLocalStorage(documents', storage, setItemThrows)
            /\ op' = [name |-> "add", title |-> doc.title, content |-> doc.content,
                      metadata |-> [source |-> "manual"], threw |-> FALSE,
                      ret |-> id,
                      saved |-> saveCompletes(documents', setItemThrows)]

\* The startup effect runs: testConnection, with the API key set, calls
\* chatWithRAG('Hello, are you working?').
StartTest ==
    /\ Cardinality({i \in 1..Len(calls) : calls[i].kind = "test"}) < EffectRuns
    /\ calls' = Append(calls,
                       Spread(newChat("test", TestQuery, <<>>, documents),
                              [next |-> 1]))
    /\ UNCHANGED <<documents, storage, now, op, ui, requests>>

\* testConnection resumes with the result of chatWithRAG.  With a truthy
\* response it sets 'connected' and calls initializeTestcompanyContent,
\* which checks the titles of the store and, finding no Testcompany title,
\* adds the first document before it suspends; otherwise it sets 'error'.
TestResumes(rnds) ==
    \E i \in 1..Len(calls) :
        /\ calls[i].kind = "test" /\ calls[i].pc = "resolved"
        /\ IF truthy(calls[i].result.response)
           THEN /\ ui' = [ui EXCEPT !.connectionStatus = "connected"]
                /\ IF hasTestcompanyContent(documents)
                   THEN /\ calls' = [calls EXCEPT ![i].pc = "initialized"]
                        /\ UNCHANGED <<documents, storage, op>>
                   ELSE /\ TestcompanyAdd(i, testcompanyDocs[1], rnds)
                        /\ calls' = [calls EXCEPT ![i].pc = "adding",
                                                  ![i].next = 2]
           ELSE /\ ui' = [ui EXCEPT !.connectionStatus = "error"]
                /\ calls' = [calls EXCEPT ![i].pc = "done"]
                /\ UNCHANGED <<documents, storage, op>>
        /\ UNCHANGED <<now, requests>>

\* The loop of initializeTestcompanyContent resumes after an awaited
\* addDocument: it adds the next document, or returns after the last.
InitializeResumes(rnds) ==
    \E i \in 1..Len(calls) :
        /\ calls[i].kind = "test" /\ calls[i].pc = "adding"
        /\ IF calls[i].next <= Len(testcompanyDocs)
           THEN /\ TestcompanyAdd(i, testcompanyDocs[calls[i].next], rnds)
                /\ calls' = [calls EXCEPT ![i].next = @ + 1]
           ELSE /\ calls' = [calls EXCEPT ![i].pc = "initialized"]
                /\ UNCHANGED <<documents, storage, op>>
        /\ UNCHANGED <<now, ui, requests>>

\* testConnection resumes after initializeTestcompanyContent: it reloads
\* the list of documents shown and sets the messages to the welcome
\* message alone.
TestFinishes ==
    \E i \in 1..Len(calls) :
        /\ calls[i].kind = "test" /\ calls[i].pc = "initialized"
        /\ ui' = [ui EXCEPT !.messages = <<[id |-> now, role |-> "assistant",
                                            content |-> WelcomeText]>>]
        /\ calls' = [calls EXCEPT ![i].pc = "done"]
        /\ UNCHANGED <<documents, storage, now, op, requests>>

\* The store of a later start: the defaults and the eight Testcompany
\* documents, and the same after all but the last were removed.
StartItems ==
    LET defaults == initializeDefaultKnowledge(<<>>, 37,
                        [i \in 1..Len(DefaultKnowledge) |-> <<120>>])
        added == [k \in 1..Len(testcompanyDocs) |->
                    ragNewDocument(generateId(37, <<120>>), testcompanyDocs[k].title,
                                   testcompanyDocs[k].content,
                                   [source |-> "manual"], 37)]
    IN  { NoItem,
          saveToLocalStorage(defaults \o added, NoItem, FALSE),
          saveToLocalStorage(defaults \o <<added[Len(added)]>>, NoItem, FALSE) }

\* The module of the page is loaded: the service is constructed over the
\* item found, and App is mounted.
StartInit ==
    \E item \in StartItems :
        /\ now = 37
        /\ documents = initializeDefaultKnowledge(loadFromLocalStorage(item), now,
                            [i \in 1..Len(DefaultKnowledge) |-> <<120>>])
        /\ storage = IF Len(loadFromLocalStorage(item)) = 0
                     THEN saveToLocalStorage(documents, item, FALSE)
                     ELSE item
        /\ op = [name |-> "new", caught |-> loadThrows(item)]
        /\ PageInit

StartNext ==
    \/ StartTest
    \/ SearchSettles
    \/ CompletionResolves
    \/ CompletionRejects
    \/ TestResumes({<<120>>})
    \/ InitializeResumes({<<120>>})
    \/ TestFinishes
    \/ Render

SpecStart == StartInit /\ [][StartNext]_vars

----------------------------------------------------------------------------
(* Properties *)

\* The stored item is absent, unparsable, no array, or an array with an
\* element without metadata.
BadBlob ==
    \/ storage.kind \in {"null", "text", "other"}
    \/ /\ storage.kind = "json"
       /\ \E i \in 1..Len(storage.value) : "metadata" \notin DOMAIN storage.value[i]

\* C11: a store constructed over an absent, unparsable or structurally
\* invalid blob (no array, or an element without metadata) has an empty
\* document sequence after the load step; the constructor does not throw.
C11_BadBlobLoadsEmpty ==
    (op.name = "new" /\ BadBlob) => documents = <<>>

C11_Witness ==
    /\ op.name = "new" /\ op.caught
    /\ storage.kind = "json" /\ Len(storage.value) = 2
    /\ documents = <<>>

Called(name) == now' = now /\ op'.name = name

\* The last call changed the document array.
Mutated ==
    \/ op.name = "add" /\ ~op.threw
    \/ op.name \in {"remove", "update"} /\ op.ret
    \/ op.name = "clearAll"

\* C2 as claimed: after every completed mutating call the stored item
\* deserializes to exactly the in-memory document sequence.
C2_BlobEqualsMemory == Mutated => loadFromLocalStorage(storage) = documents

\* C2 amended: after every mutating call whose save completed without an
\* exception, the stored item deserializes to exactly the in-memory document
\* sequence (same documents, same field values, same order).
C2_SavedBlobEqualsMemory ==
    (Mutated /\ op.saved) => loadFromLocalStorage(storage) = documents

C2_Witness ==
    /\ op.name = "update" /\ op.ret /\ op.saved
    /\ Len(documents) = 2
    /\ loadFromLocalStorage(storage) = documents

\* C3 as claimed: remove(id) on an id present in the store returns true and
\* getById(id) afterwards returns no document.
C3_RemovedIdIsGone ==
    [][(Called("remove") /\ findIndex(documents, op'.id) # 0)
        => (op'.ret = TRUE /\ getDocumentById(documents', op'.id) = undefined)]_vars

\* C4: remove(id) on an id that is not in the store returns false and leaves
\* the in-memory document sequence and the persisted snapshot as they were.
C4_RemoveMissingChangesNothing ==
    [][(Called("remove") /\ findIndex(documents, op'.id) = 0)
        => (op'.ret = FALSE /\ documents' = documents /\ storage' = storage)]_vars

C4_Witness ==
    /\ op.name = "remove" /\ op.ret = FALSE
    /\ Len(documents) > 0
    /\ loadFromLocalStorage(storage) # documents

\* C5 as claimed: after an accepted add returning id, getById(id) is a
\* document with that id, the title, content and metadata add was given (and
\* the createdAt it assigned) and an empty embedding.
C5_AddThenGetById ==
    [][(Called("add") /\ ~op'.threw)
        => LET d == getDocumentById(documents', op'.ret)
           IN  /\ d # undefined
               /\ d.id = op'.ret
               /\ d.title = op'.title
               /\ d.content = op'.content
               /\ d.metadata = Spread([createdAt |-> now], op'.metadata)
               /\ d.embedding = <<>>]_vars

\* C6 as claimed: add fails with an error and leaves the documents and the
\* persisted snapshot as they were whenever the title or the content is
\* empty after trimming, or metadata.source is missing or is none of
\* website, upload, manual.
C6_InvalidAddFails ==
    [][(/\ Called("add")
        /\ \/ trim(op'.title) = <<>>
           \/ trim(op'.content) = <<>>
           \/ ~Has(op'.metadata, "source")
           \/ op'.metadata.source \notin {"website", "upload", "manual"})
        => (op'.threw /\ documents' = documents /\ storage' = storage)]_vars

\* C7 as claimed: no two stored documents have the same id.
C7_UniqueIds ==
    \A i, j \in 1..Len(documents) :
        i # j => documents[i].id # documents[j].id

\* C8 as claimed: every stored document has a title and a content that are
\* non-empty after trimming.
C8_NonEmptyTitleAndContent ==
    \A i \in 1..Len(documents) :
        trim(documents[i].title) # <<>> /\ trim(documents[i].content) # <<>>

\* C9: update(id, partial) returns true exactly when a document with the id
\* exists; then only the title/content the partial gives change in that
\* document, its other fields and position and all other documents stay; on
\* false neither the document sequence nor the persisted snapshot changes.
C9_UpdateFrame ==
    [][Called("update")
        => LET i == findIndex(documents, op'.id)
               u == op'.updates
           IN  /\ op'.ret = (i # 0)
               /\ i = 0 => documents' = documents /\ storage' = storage
               /\ i # 0 =>
                    /\ Len(documents') = Len(documents)
                    /\ \A j \in 1..Len(documents) :
                          j # i => documents'[j] = documents[j]
                    /\ DOMAIN documents'[i] = DOMAIN documents[i]
                    /\ documents'[i].id = documents[i].id
                    /\ documents'[i].metadata = documents[i].metadata
                    /\ documents'[i].embedding = documents[i].embedding
                    /\ documents'[i].title =
                          IF Has(u, "title") THEN u.title ELSE documents[i].title
                    /\ documents'[i].content =
                          IF Has(u, "content") THEN u.content
                          ELSE documents[i].content]_vars

C9_Witness ==
    /\ op.name = "update" /\ op.ret
    /\ Has(op.updates, "title") /\ ~Has(op.updates, "content")
    /\ Len(documents) = 2
    /\ findIndex(documents, op.id) = 2
    /\ documents[2].title = op.updates.title
    /\ documents[2].content # <<>>

\* C10: saving the documents and loading them again gives the same number
\* of documents in the same order, each with a createdAt equal to the
\* original to the millisecond.
C10_CreatedAtRoundTrip ==
    LET loaded == loadFromLocalStorage(saveToLocalStorage(documents, NoItem, FALSE))
    IN  /\ Len(loaded) = Len(documents)
        /\ \A i \in 1..Len(documents) :
              /\ loaded[i].id = documents[i].id
              /\ loaded[i].metadata.createdAt = documents[i].metadata.createdAt

C10_Witness ==
    /\ Len(documents) = 2
    /\ documents[1].metadata.createdAt = 37
    /\ documents[2].metadata.createdAt = 2147483647
    /\ loadFromLocalStorage(storage) = documents

\* C12: when the storage write of add, remove, update or clearAll throws, the
\* call completes normally (add returns the id of the new document, remove
\* and update return true) and the change of the document sequence is kept.
C12_WriteFailureIsSwallowed ==
    [][(/\ now' = now
        /\ op'.name \in {"add", "remove", "update", "clearAll"}
        /\ Has(op', "saved") /\ ~op'.saved)
        => /\ ~op'.threw
           /\ op'.name = "add" =>
                /\ Len(documents') = Len(documents) + 1
                /\ SubSeq(documents', 1, Len(documents)) = documents
                /\ documents'[Len(documents')].id = op'.ret
                /\ documents'[Len(documents')].title = op'.title
           /\ op'.name = "remove" =>
                /\ op'.ret = TRUE
                /\ Len(documents') = Len(documents) - 1
           /\ op'.name = "update" =>
                /\ op'.ret = TRUE
                /\ \A k \in DOMAIN op'.updates :
                      documents'[findIndex(documents, op'.id)][k] = op'.updates[k]
           /\ op'.name = "clearAll" => documents' = <<>>]_vars

C12_Witness ==
    /\ op.name = "add" /\ ~op.threw /\ ~op.saved
    /\ Len(documents) = 2
    /\ documents[2].id = op.ret
    /\ loadFromLocalStorage(storage) = <<>>

\* C13 as claimed: whatever the metadata argument, add sets the createdAt of
\* the new document to the time of the call.
C13_CreatedAtIsNow ==
    [][(Called("add") /\ ~op'.threw)
        => documents'[Len(documents')].metadata.createdAt = now]_vars

\* C14 as claimed: the content of the document add stores is the content
\* argument without its leading and trailing whitespace.
C14_ContentIsTrimmed ==
    [][(Called("add") /\ ~op'.threw)
        => documents'[Len(documents')].content = trim(op'.content)]_vars

\* The smaller of two numbers.
Min(a, b) == IF a < b THEN a ELSE b

\* C15: in the results of search, and of searchSimilar, a document stands
\* after every document of greater similarity and after every document of
\* equal similarity that is earlier in the store, and the results are the
\* first topK of that order.
C15_TiesKeepInsertionOrder ==
    /\ op.name = "search" =>
          LET sim(i) == calculateSimilarity(op.query, documents[i])
              passing == {i \in 1..Len(documents) : aboveThreshold(sim(i))}
              rank(i) == 1 + Cardinality({j \in passing :
                              \/ simLess(sim(i), sim(j))
                              \/ ~simLess(sim(j), sim(i)) /\ j < i})
          IN  /\ Len(op.ret) = Min(op.topK, Cardinality(passing))
              /\ \A i \in passing :
                    rank(i) <= op.topK => op.ret[rank(i)].document = documents[i]
    /\ (op.name = "searchSimilar" /\ ~op.threw) =>
          LET embedded == {i \in 1..Len(documents) :
                              /\ "embedding" \in DOMAIN documents[i]
                              /\ documents[i].embedding # <<>>}
              cos(i) == cosineSimilarity(op.query, documents[i].embedding)
              rank(i) == 1 + Cardinality({j \in embedded :
                              \/ cosLess(cos(i), cos(j))
                              \/ ~cosLess(cos(j), cos(i)) /\ j < i})
          IN  /\ Len(op.ret) = Min(op.topK, Cardinality(embedded))
              /\ \A i \in embedded :
                    rank(i) <= op.topK =>
                        \A k \in DOMAIN documents[i] :
                            op.ret[rank(i)][k] = documents[i][k]

\* A search cut to one result between two documents of equal similarity:
\* the one stored first is returned.
C15_Witness ==
    /\ op.name = "search" /\ op.topK = 1 /\ Len(op.ret) = 1
    /\ Len(documents) = 2
    /\ documents[1] # documents[2]
    /\ aboveThreshold(calculateSimilarity(op.query, documents[1]))
    /\ calculateSimilarity(op.query, documents[1])
          = calculateSimilarity(op.query, documents[2])
    /\ op.ret[1].document = documents[1]

\* C16: the lexical score of a query and a document is the number of query
\* tokens, repeats counted, that occur among the tokens of the document's
\* content, divided by the number of query tokens, and 0 for a query without
\* tokens; it lies in [0, 1].
C16_ScoreIsMatchingShare ==
    op.name = "calculateSimilarity" =>
        LET queryTokens == tokenize(toLowerCase(op.query))
            docTokens   == {tokenize(toLowerCase(op.content))[m] :
                              m \in 1..Len(tokenize(toLowerCase(op.content)))}
            occurring   == {k \in 1..Len(queryTokens) : queryTokens[k] \in docTokens}
        IN  /\ op.ret.den > 0
            /\ 0 <= op.ret.num /\ op.ret.num <= op.ret.den
            /\ IF Len(queryTokens) > 0
               THEN op.ret.num * Len(queryTokens) = Cardinality(occurring) * op.ret.den
               ELSE op.ret.num = 0

\* A query of one token twice, both occurring in the content: the score is 1.
C16_Witness ==
    /\ op.name = "calculateSimilarity"
    /\ Len(tokenize(toLowerCase(op.query))) = 2
    /\ tokenize(toLowerCase(op.query))[1] = tokenize(toLowerCase(op.query))[2]
    /\ op.ret.num = 2 /\ op.ret.den = 2

\* The punctuation characters among the code units below 128.
isPunctuation(c) == c \in (33..47) \cup (58..64) \cup (91..96) \cup (123..126)

\* C17: the tokens of a text are the maximal runs of its lowercased
\* characters that are neither whitespace nor punctuation, those longer than
\* 2 characters only, in their order in the text; the empty text has none.
C17_TokensAreLowercaseRuns ==
    op.name = "tokenize" =>
        LET text == toLowerCase(op.text)
            isSeparator(k) == isWhiteSpace(text[k]) \/ isPunctuation(text[k])
            runs == {r \in (1..Len(text)) \X (1..Len(text)) :
                       /\ r[2] - r[1] + 1 > 2
                       /\ \A k \in r[1]..r[2] : ~isSeparator(k)
                       /\ (r[1] = 1 \/ isSeparator(r[1] - 1))
                       /\ (r[2] = Len(text) \/ isSeparator(r[2] + 1))}
        IN  /\ Len(op.ret) = Cardinality(runs)
            /\ \A r \in runs :
                   op.ret[Cardinality({q \in runs : q[1] <= r[1]})]
                       = SubSeq(text, r[1], r[2])

\* The sentences of a content: its pieces between runs of . ! ? that are not
\* blank.
sentencesOf(content) ==
    SelectSeq(split(content, SentenceEnds), LAMBDA s : Len(trim(s)) > 0)

\* One point per query token that is a substring of, or contains, a token
\* of the sentence.
sentenceScore(query, sentence) ==
    LET queryTokens    == tokenize(toLowerCase(query))
        sentenceTokens == tokenize(toLowerCase(sentence))
    IN  Cardinality({k \in 1..Len(queryTokens) :
            \E j \in 1..Len(sentenceTokens) :
                \/ isSubstring(queryTokens[k], sentenceTokens[j])
                \/ isSubstring(sentenceTokens[j], queryTokens[k])})

\* The places of the sentences with the highest score, if above zero.
topSentences(query, content) ==
    {i \in 1..Len(sentencesOf(content)) :
        /\ sentenceScore(query, sentencesOf(content)[i]) > 0
        /\ \A j \in 1..Len(sentencesOf(content)) :
               sentenceScore(query, sentencesOf(content)[j])
                   <= sentenceScore(query, sentencesOf(content)[i])}

\* C18: searchRelevantChunk returns the first of the sentences with the
\* highest score, trimmed; when no sentence scores above zero it returns the
\* first 200 characters of the content followed by '...'.
C18_FirstBestSentenceOrPrefix ==
    op.name = "searchRelevantChunk" =>
        LET top == topSentences(op.query, op.content)
        IN  IF top # {}
            THEN op.ret = trim(sentencesOf(op.content)[
                              CHOOSE i \in top : \A j \in top : i <= j])
            ELSE /\ Len(op.ret) = (IF Len(op.content) < 200
                                   THEN Len(op.content) ELSE 200) + 3
                 /\ \A k \in 1..Len(op.ret) :
                        op.ret[k] = IF k <= Len(op.ret) - 3
                                    THEN op.content[k] ELSE 46

\* Two different sentences share the highest score and the first is returned.
C18_Witness ==
    /\ op.name = "searchRelevantChunk"
    /\ \E i, j \in topSentences(op.query, op.content) :
           /\ i < j
           /\ \A k \in topSentences(op.query, op.content) : i <= k
           /\ trim(sentencesOf(op.content)[i]) # trim(sentencesOf(op.content)[j])
           /\ op.ret = trim(sentencesOf(op.content)[i])

\* No sentence of a content longer than 200 characters scores.
C18_PrefixReached ==
    /\ op.name = "searchRelevantChunk"
    /\ topSentences(op.query, op.content) = {}
    /\ Len(op.content) > 200
    /\ Len(op.ret) = 203

\* C19: whenever either argument of cosineSimilarity has magnitude 0, the
\* call does not fail and returns exactly 0.
C19_ZeroVectorGivesZero ==
    ( /\ op.name = "cosineSimilarity"
      /\ \/ \A i \in 1..Len(op.a) : op.a[i] = 0
         \/ \A i \in 1..Len(op.b) : op.b[i] = 0 )
    => (~op.threw /\ op.ret.dot = 0 /\ op.ret.sq > 0)

\* C19, amended: whenever either of two arguments of the same length has
\* magnitude 0, cosineSimilarity does not fail and returns exactly 0.
C19_ZeroVectorOfSameLengthGivesZero ==
    ( /\ op.name = "cosineSimilarity"
      /\ Len(op.a) = Len(op.b)
      /\ \/ \A i \in 1..Len(op.a) : op.a[i] = 0
         \/ \A i \in 1..Len(op.b) : op.b[i] = 0 )
    => (~op.threw /\ op.ret.dot = 0 /\ op.ret.sq > 0)

\* A zero vector against a vector of the same length that is not zero.
C19_Witness ==
    /\ op.name = "cosineSimilarity"
    /\ Len(op.a) = 2 /\ Len(op.b) = 2
    /\ \A i \in 1..2 : op.a[i] = 0
    /\ \E i \in 1..2 : op.b[i] # 0
    /\ ~op.threw /\ op.ret.dot = 0 /\ op.ret.sq > 0

\* The query 'Was ist RAG?'
WasIstRag == <<87, 97, 115, 32, 105, 115, 116, 32, 82, 65, 71, 63>>

\* The store holds default documents only, the Mistral and the RAG document
\* among them.
HoldsMistralAndRag ==
    /\ \E i \in 1..Len(documents) :
           documents[i].title = MistralTitle /\ documents[i].content = MistralContent
    /\ \E i \in 1..Len(documents) :
           documents[i].title = RagTitle /\ documents[i].content = RagContent
    /\ \A i \in 1..Len(documents) :
           \E k \in 1..Len(DefaultKnowledge) :
               /\ documents[i].title = DefaultKnowledge[k].title
               /\ documents[i].content = DefaultKnowledge[k].content

\* C20: in a store of default documents holding the Mistral and the RAG
\* document, search('Was ist RAG?') returns the RAG document first, with a
\* similarity strictly higher than the Mistral document's.
C20_RagDocumentRanksFirst ==
    ( /\ op.name = "search" /\ op.query = WasIstRag /\ op.topK >= 1
      /\ HoldsMistralAndRag )
    => /\ Len(op.ret) >= 1
       /\ op.ret[1].document.title = RagTitle
       /\ \A i \in 1..Len(documents) :
              documents[i].title = MistralTitle =>
                  simLess(calculateSimilarity(op.query, documents[i]),
                          op.ret[1].similarity)
       /\ \A k \in 1..Len(op.ret) :
              op.ret[k].document.title = MistralTitle =>
                  k > 1 /\ simLess(op.ret[k].similarity, op.ret[1].similarity)

\* The three default documents searched: the RAG document comes first and
\* the Mistral document, seeded before it, second.
C20_Witness ==
    /\ op.name = "search" /\ op.query = WasIstRag /\ op.topK = 3
    /\ HoldsMistralAndRag
    /\ Len(documents) = 3
    /\ documents[1].title = MistralTitle /\ documents[2].title = RagTitle
    /\ Len(op.ret) = 3
    /\ op.ret[1].document.title = RagTitle
    /\ op.ret[2].document.title = MistralTitle

\* The documents the store of an ingestion session starts with.
LoadedDocuments ==
    loadFromLocalStorage(saveToLocalStorage(PersistedDocuments, NoItem, FALSE))

\* The ingestion calls that succeed: their addDocument has run.
Succeeded == {i \in 1..Len(calls) : calls[i].pc \in {"added", "done"}}

\* Each call that succeeds has contributed exactly one document, and no
\* document is lost or written over: the store is the loaded documents
\* followed by one document for each such call.
OneDocumentPerCall ==
    /\ Len(documents) = Len(LoadedDocuments) + Cardinality(Succeeded)
    /\ \A k \in 1..Len(LoadedDocuments) : documents[k] = LoadedDocuments[k]
    /\ \E f \in [Succeeded -> (Len(LoadedDocuments) + 1)..Len(documents)] :
           /\ \A i, j \in Succeeded : f[i] = f[j] => i = j
           /\ \A i \in Succeeded :
                  /\ documents[f[i]].id = calls[i].id
                  /\ documents[f[i]].title = calls[i].title
                  /\ documents[f[i]].content = trim(calls[i].content)

\* The blob holds every document of the store, in order.
BlobHoldsAll ==
    /\ storage.kind = "json"
    /\ Len(storage.value) = Len(documents)
    /\ \A k \in 1..Len(documents) :
           /\ storage.value[k].id = documents[k].id
           /\ storage.value[k].title = documents[k].title
           /\ storage.value[k].content = documents[k].content

\* C21: ingestion calls pending at the same time never interleave inside the
\* store mutation: each call that succeeds contributes exactly one document,
\* none is lost or written over, and the snapshot persisted after the last
\* call contains all of them.
C21_IngestionIsAtomic ==
    (\A i \in 1..Len(calls) : calls[i].kind \in {"website", "file", "add"})
    => /\ OneDocumentPerCall
       /\ (Pending = {} /\ Succeeded # {}) => BlobHoldsAll

\* C21, amended: as C21, the snapshot containing all documents when the
\* write of the last call that succeeded went through.
C21_IngestionIsAtomicWhenSaved ==
    (\A i \in 1..Len(calls) : calls[i].kind \in {"website", "file", "add"})
    => /\ OneDocumentPerCall
       /\ (Pending = {} /\ Succeeded # {} /\ op.name = "add" /\ op.saved)
              => BlobHoldsAll

\* A website call and a second call were pending together, the second
\* added its document first, and both documents are in the store and in
\* the blob.
C21_Witness ==
    /\ Len(calls) = 2 /\ Pending = {} /\ Succeeded = {1, 2}
    /\ calls[1].kind = "website" /\ calls[2].kind \in {"file", "add"}
    /\ calls[1].id # calls[2].id
    /\ documents[Len(documents) - 1].id = calls[2].id
    /\ documents[Len(documents)].id = calls[1].id
    /\ op.saved /\ BlobHoldsAll


\* The calls of chatWithRAG that have returned.
Returned ==
    {i \in 1..Len(calls) : calls[i].kind \in {"send", "test"}
                           /\ calls[i].pc \in {"resolved", "done"}}

\* The documents of the store that search may return for a query.
Matching(query) ==
    {k \in 1..Len(documents) : aboveThreshold(calculateSimilarity(query, documents[k]))}

\* sources is a ranking of the store for the query: at most three matching
\* documents, none twice, by falling similarity, and none left out that
\* scores above one taken.
IsRanking(sources, query) ==
    /\ Len(sources) = Min(3, Cardinality(Matching(query)))
    /\ \E pos \in [1..Len(sources) -> Matching(query)] :
          /\ \A k \in 1..Len(sources) : sources[k] = documents[pos[k]]
          /\ \A k, l \in 1..Len(sources) : k # l => pos[k] # pos[l]
          /\ \A k \in 1..Len(sources), l \in 1..Len(sources) :
                k < l => ~simLess(calculateSimilarity(query, documents[pos[k]]),
                                  calculateSimilarity(query, documents[pos[l]]))
          /\ \A k \in 1..Len(sources), m \in Matching(query) :
                (\A l \in 1..Len(sources) : pos[l] # m)
                    => ~simLess(calculateSimilarity(query, documents[pos[k]]),
                                calculateSimilarity(query, documents[m]))

\* C22: chatWithRAG never rejects.  Every call of it that has ended has
\* resolved: after a failure of the retrieval or of the completion request
\* with the fixed apology and an empty list of sources, after a success
\* with the documents of the at most three search results in ranking order
\* as its sources.
C22_ResolvesWithApologyOrRankedSources ==
    /\ \A i \in 1..Len(calls) :
          calls[i].kind \in {"send", "test"}
              => calls[i].pc \in {"search", "completing", "resolved", "done"}
    /\ \A i \in Returned :
          IF calls[i].failed
          THEN /\ calls[i].result.response = ApologyText
               /\ calls[i].result.sources = <<>>
          ELSE /\ Len(calls[i].result.sources) <= 3
               /\ IsRanking(calls[i].result.sources, calls[i].userQuery)

\* One call failed at the completion request although its search had found
\* documents, and another resolved with three of the four matching
\* documents, the third document of the store first.
C22_Witness ==
    \E i, j \in Returned :
        /\ calls[i].failed /\ ~calls[i].threw /\ Len(calls[i].searchResults) = 3
        /\ ~calls[j].failed
        /\ Len(calls[j].result.sources) = 3
        /\ Cardinality(Matching(calls[j].userQuery)) = 4
        /\ calls[j].result.sources[1] = documents[3]

\* A call failed because search threw on a document without content.
C22_RetrievalFailed ==
    \E i \in Returned : calls[i].failed /\ calls[i].threw /\ requests = <<>>


\* The message a turn of the conversation is sent as.
asSent(turn) == [role |-> turn.role, content |-> turn.content]

\* C23: the list chatWithRAG sends upstream is one system message built
\* from the at most three source blocks of the search results, then the
\* last min(6, n) turns of the n turns of history in their order, then the
\* new user turn, last and once: the history sendMessage passes is the
\* conversation without the user message it has just queued.
C23_SystemHistoryTailThenUserTurn ==
    /\ \A r \in 1..Len(requests) :
          LET call == calls[requests[r].by]
              sent == requests[r].messages
              n == Len(call.conversationHistory)
              kept == Min(6, n)
          IN  /\ Len(sent) = 1 + kept + 1
              /\ Len(call.searchResults) <= 3
              /\ sent[1] = [role |-> "system",
                            content |-> systemPrompt(contextFrom(call.searchResults, 1))]
              /\ \A k \in 1..kept :
                    sent[1 + k] = asSent(call.conversationHistory[n - kept + k])
              /\ sent[Len(sent)] = [role |-> "user", content |-> call.userQuery]
    /\ \A i \in 1..Len(calls) :
          (calls[i].kind = "send" /\ calls[i].pc # "done")
              => /\ Len(ui.messages) = Len(calls[i].conversationHistory) + 1
                 /\ SubSeq(ui.messages, 1, Len(calls[i].conversationHistory))
                        = calls[i].conversationHistory
                 /\ ui.messages[Len(ui.messages)].role = "user"
                 /\ ui.messages[Len(ui.messages)].content = trim(calls[i].userQuery)

\* A request went upstream with three source blocks and six of the seven
\* turns of history, the second turn of the conversation first among them.
C23_Witness ==
    \E r \in 1..Len(requests) :
        LET call == calls[requests[r].by]
        IN  /\ call.kind = "send"
            /\ Len(call.searchResults) = 3
            /\ Len(call.conversationHistory) = 7
            /\ Len(requests[r].messages) = 8
            /\ requests[r].messages[2] = asSent(call.conversationHistory[2])
            /\ requests[r].messages[8].content = call.userQuery

\* A request went upstream with a history of fewer than six turns, all of
\* them kept.
C23_ShortHistoryReached ==
    \E r \in 1..Len(requests) :
        /\ Len(calls[requests[r].by].conversationHistory) = 5
        /\ Len(requests[r].messages) = 7


\* The calls of addWebsiteContent that have extracted the text of their page.
Extracted ==
    {i \in 1..Len(calls) : calls[i].kind = "website" /\ Has(calls[i], "content")}

\* C24: website ingestion adds a document exactly when the text extracted
\* from the page has at least 100 characters; with fewer it fails and the
\* store gets no document.
C24_AddsFromHundredCharacters ==
    /\ \A i \in Extracted :
          /\ calls[i].pc \in {"added", "done"} <=> Len(calls[i].content) >= 100
          /\ calls[i].pc = "failed" <=> Len(calls[i].content) < 100
    /\ Len(documents) = Len(LoadedDocuments)
                         + Cardinality({i \in Extracted : calls[i].pc # "failed"})


\* The runs of testConnection that have resumed after their chatWithRAG.
ResumedTests ==
    {i \in 1..Len(calls) : calls[i].kind = "test"
                           /\ calls[i].pc \in {"adding", "initialized", "done"}}

\* C25: when the completion request of the startup connection test fails,
\* connectionStatus ends as 'error': the test never sets 'connected' and
\* adds no welcome message.
C25_FailedTestEndsInError ==
    (/\ ResumedTests # {}
     /\ \A i \in ResumedTests : calls[i].failed /\ ~calls[i].threw)
        => /\ ui.connectionStatus = "error"
           /\ ui.messages = <<>>


\* The positions of the store that hold the title of testcompanyDocs[d].
Holding(d) ==
    {k \in 1..Len(documents) : documents[k].title = testcompanyDocs[d].title}

\* C26: the eight Testcompany documents are added at most once.  With the
\* startup effect run twice and both runs pending, and on a start over a
\* persisted store that holds a Testcompany document, no Testcompany title
\* is twice in the store.
C26_TestcompanyTitlesAreUnique ==
    \A d \in 1..Len(testcompanyDocs) : Cardinality(Holding(d)) <= 1

\* Two runs of the effect were pending together: one is in the middle of
\* its loop of additions, the other has resumed after it, found a
\* Testcompany title and added nothing.
C26_Witness ==
    \E i, j \in 1..Len(calls) :
        /\ calls[i].kind = "test" /\ calls[i].pc = "adding"
        /\ calls[i].next \in 3..Len(testcompanyDocs)
        /\ calls[j].kind = "test" /\ calls[j].pc = "initialized" /\ calls[j].next = 1
        /\ \A d \in 1..(calls[i].next - 1) : Cardinality(Holding(d)) = 1

\* A start over the persisted store that holds the FAQ document alone of
\* the eight: the run has resumed and added nothing.
C26_PersistedReached ==
    /\ Len(documents) = Len(DefaultKnowledge) + 1
    /\ Cardinality(Holding(Len(testcompanyDocs))) = 1
    /\ \E i \in 1..Len(calls) : calls[i].kind = "test" /\ calls[i].pc = "done"
                                 /\ calls[i].next = 1
                                 /\ truthy(calls[i].result.response)


\* The requests started by sendMessage that have not come back to it.
InFlight ==
    {i \in 1..Len(calls) : calls[i].kind = "send" /\ calls[i].pc # "done"}

\* C27: at most one chat request started by sendMessage is in flight.
\* While one is pending, a trigger of sendMessage starts no second call of
\* chatWithRAG and appends no second user message.
C27_OneRequestInFlight ==
    /\ Cardinality(InFlight) <= 1
    /\ InFlight # {} => ui.isLoading

\* A step of sendMessage taken while a request is pending changes neither
\* the calls nor the messages.
C27_PendingSendIsIgnored ==
    [][(SendMessage /\ InFlight # {})
          => (calls' = calls /\ ui'.messages = ui.messages /\ ~op'.started)]_vars

\* sendMessage was triggered while a request was pending and returned at
\* once.
C27_Witness ==
    /\ Cardinality(InFlight) = 1
    /\ op.name = "sendMessage" /\ ~op.started
    /\ ui.isLoading /\ ui.shown.isLoading
    /\ ui.messages[Len(ui.messages)].role = "user"


\* docs is the three default documents: Mistral, RAG, Chatbot, in that
\* order, as addDocument stores them.
AreTheDefaults(docs) ==
    /\ Len(docs) = 3
    /\ docs[1].title = MistralTitle /\ docs[1].content = trim(MistralContent)
    /\ docs[2].title = RagTitle /\ docs[2].content = trim(RagContent)
    /\ docs[3].title = ChatbotTitle /\ docs[3].content = trim(ChatbotContent)
    /\ \A k \in 1..3 : docs[k].metadata.source = "manual"

\* C28: the constructor of the lexical store seeds exactly the three
\* default documents, in their order, when and only when the documents are
\* empty after loading; a store loaded with a document gets no default, and
\* after construction the store is never empty.
C28_SeedsExactlyWhenLoadedEmpty ==
    [][RagConstruct =>
          /\ IF Len(loadFromLocalStorage(storage)) = 0
             THEN AreTheDefaults(documents')
             ELSE documents' = loadFromLocalStorage(storage)
          /\ Len(documents') > 0
          /\ (storage.kind # "json" \/ loadThrows(storage) \/ storage.value = <<>>)
                => AreTheDefaults(documents')]_vars

\* The store was constructed over an item that does not load (malformed
\* text, or an element without metadata) and holds the three defaults.
C28_Witness ==
    /\ op.name = "new" /\ op.caught
    /\ AreTheDefaults(documents)
    /\ storage.kind = "json" /\ Len(storage.value) = 3

\* The store was constructed over stored documents and holds them alone.
C28_LoadedReached ==
    /\ op.name = "new" /\ ~op.caught
    /\ Len(documents) = 1
    /\ documents[1].title = <<84>>


\* The documents of the store without a usable embedding: the property is
\* absent or the array empty.
Unembedded ==
    {k \in 1..Len(documents) :
        ~Has(documents[k], "embedding") \/ documents[k].embedding = <<>>}

\* C29: search of the embedding store never returns a document whose
\* embedding is absent or empty.  A document created by add, stored with
\* embedding [], is in no result as long as its embedding is empty.
C29_UnembeddedNeverReturned ==
    (op.name = "kbSearch" /\ ~op.threw) =>
        /\ \A i \in 1..Len(op.ret) :
              /\ Has(op.ret[i], "embedding")
              /\ Len(op.ret[i].embedding) > 0
        /\ \A i \in 1..Len(op.ret), k \in Unembedded :
              \E f \in DOMAIN documents[k] : op.ret[i][f] # documents[k][f]

\* A search with room for every document of the store returned the one
\* loaded with an embedding and left out the one add had created.
C29_Witness ==
    /\ op.name = "kbSearch" /\ ~op.threw
    /\ op.topK >= Len(documents)
    /\ Len(documents) = 2 /\ Len(op.ret) = 1
    /\ documents[2].embedding = <<>>
    /\ op.ret[1].id = documents[1].id /\ op.ret[1].embedding = documents[1].embedding

\* The same with the document loaded without the embedding property.
C29_AbsentReached ==
    /\ op.name = "kbSearch" /\ ~op.threw
    /\ op.topK >= Len(documents)
    /\ Len(documents) = 2 /\ Len(op.ret) = 1
    /\ ~Has(documents[1], "embedding")


\* C30: remove(id) on an existing id deletes exactly one document.  The
\* size of the store goes down by one, and every other document stays as it
\* was, in the order it was in.
C30_RemoveDeletesExactlyOne ==
    [][(Called("remove") /\ findIndex(documents, op'.id) # 0)
        => /\ Len(documents') = Len(documents) - 1
           /\ \E k \in 1..Len(documents) :
                 /\ documents[k].id = op'.id
                 /\ \A j \in 1..(k - 1) : documents'[j] = documents[j]
                 /\ \A j \in k..Len(documents') : documents'[j] = documents[j + 1]]_vars

\* remove(id) succeeded on a store of two documents with this id: the one
\* that is left has the id.
C30_Witness ==
    /\ op.name = "remove" /\ ~op.threw /\ op.ret = TRUE
    /\ Len(documents) = 1
    /\ documents[1].id = op.id

====
